---- MODULE Spec2Model ----
(***************************************************************************)
(* A model of the curve-fitting core: get_cashflows_from_bonds             *)
(* (curve_fitting_utils.py), the McCulloch spline helpers get_nodes,       *)
(* build_basis_matrix, fit, predict_prices and discount_curve, the batch   *)
(* driver run_mcculloch and get_full_error_metrics                         *)
(* (mcc1975_yield_curve.py), the sample filters and the NSS fit            *)
(* (gsw2006_yield_curve.py), the curve converters (curve_conversions.py)   *)
(* and the scores (error_metrics.py).                                      *)
(*                                                                         *)
(* Numbers: floats are modelled by exact rationals [n, d] (d > 0, lowest   *)
(* terms); a payment time is kept as its day count, the code's time being  *)
(* that count divided by 365.0.                                            *)
(***************************************************************************)
EXTENDS Integers, Sequences, FiniteSets, TLC

VARIABLES
    \* ---- get_cashflows_from_bonds ----
    pc,             \* position in get_cashflows_from_bonds
    freq,           \* the freq argument
    nbonds,         \* len(bonds)
    remaining,      \* rows of `bonds` that iterrows() has yet to yield
    months,         \* int(12 / freq)
    row,            \* the current row
    coupon_amt,     \* face * cpn_rate / freq
    first_coupon,   \* first_coupon of the current row (NaT when missing)
    month_end,      \* the month_end flag
    d,              \* the loop date d
    payment_dates,  \* payment_dates of the current row
    cf,             \* cf of the current row
    payment_times,  \* payment_times of the current row, in days
    stub,           \* [applied, stub_days, regular_days] of the stub handling
    cashflows,      \* the cashflows list
    times,          \* the times list
    result,         \* what the call gave back: "none", "returned" or the error
    \* ---- get_nodes, build_basis_matrix, discount_curve ----
    spc,            \* position in the spline fit of one date
    maturities,     \* bonds["ttm"], sorted ascending
    ncoef,          \* ncoef of get_nodes
    j,              \* the loop index j of get_nodes
    interior_knots, \* interior_knots of get_nodes
    knots,          \* the knot vector d
    beta_hat,       \* the coefficients the fit gave
    curve_df,       \* curve_df of discount_curve: rows [T, discount]
    nodes_df,       \* nodes_df of discount_curve: rows [T, discount]
    serr,           \* the error that ended the spline fit, or "none"
    fit_in,         \* per bond: cashflows, times, clean price, accrued interest
    P_hat,          \* the model prices predict_prices gave
    \* ---- gurkaynak_sack_wright_filters, fit (gsw2006_yield_curve.py) ----
    gpc,            \* position of the caller: "start", "filtered", "fitted"
    dff,            \* the frame handed to gurkaynak_sack_wright_filters
    df_out,         \* the frame it returned
    opt,            \* the OptimizeResult minimize() gave to fit
    fit_out,        \* what fit gave back: a pair or the error raised
    \* ---- curve_conversions.py ----
    cpc,            \* position of the caller: "start" or "done"
    curve,          \* the curve frame handed to a converter
    dt,             \* the dt argument
    conv,           \* the call made and what it gave back
    \* ---- error_metrics.py ----
    mpc,            \* position of the caller: "start" or "done"
    quotes,         \* rows [model, bid, ask, duration] of the scored bonds
    score,          \* the call made and the value it returned
    \* ---- run_mcculloch, get_full_error_metrics ----
    bpc,            \* position of the caller and of run_mcculloch's loop
    sample,         \* the sample frame handed to run_mcculloch
    todo,           \* the dates the loop of run_mcculloch has yet to take
    results,        \* the results mapping: one entry per date, in order
    report,         \* what get_full_error_metrics gave back
    berr            \* the error that ended run_mcculloch, or "none"

cashVars == <<pc, freq, nbonds, remaining, months, row, coupon_amt, first_coupon,
              month_end, d, payment_dates, cf, payment_times, stub,
              cashflows, times, result>>

splineVars == <<spc, maturities, ncoef, j, interior_knots, knots, beta_hat,
                curve_df, nodes_df, serr, fit_in, P_hat>>

gswVars == <<gpc, dff, df_out, opt, fit_out>>

curveVars == <<cpc, curve, dt, conv>>

metricVars == <<mpc, quotes, score>>

batchVars == <<bpc, sample, todo, results, report, berr>>

vars == <<cashVars, splineVars, gswVars, curveVars, metricVars, batchVars>>

\* what a step of get_cashflows_from_bonds leaves alone
CashFrame == UNCHANGED <<splineVars, gswVars, curveVars, metricVars, batchVars>>

\* what a step of the spline fit leaves alone
SplineFrame == UNCHANGED <<cashVars, gswVars, curveVars, metricVars, batchVars>>

\* what a step of the filters or of the NSS fit leaves alone
GswFrame == UNCHANGED <<cashVars, splineVars, curveVars, metricVars, batchVars>>

\* what a curve converter leaves alone
CurveFrame == UNCHANGED <<cashVars, splineVars, gswVars, metricVars, batchVars>>

\* what a score leaves alone
MetricFrame == UNCHANGED <<cashVars, splineVars, gswVars, curveVars, batchVars>>

\* what run_mcculloch and get_full_error_metrics leave alone
BatchFrame == UNCHANGED <<cashVars, splineVars, gswVars, curveVars, metricVars>>

-----------------------------------------------------------------------------
(* Bounds *)

\* the largest number of rows of the bonds frame of one call
MaxBonds == 2

\* the largest number of bonds of one date handed to get_nodes
MaxSample == 16

\* the number of points of the grid of discount_curve (200 in the code)
GridN == 4

-----------------------------------------------------------------------------
(* Rationals *)

Abs(x) == IF x < 0 THEN -x ELSE x

Min(a, b) == IF a <= b THEN a ELSE b

RECURSIVE GCD(_, _)
GCD(a, b) == IF b = 0 THEN a ELSE GCD(b, a % b)

Rat(n, dd) ==
    IF n = 0 THEN [n |-> 0, d |-> 1]
    ELSE LET s == IF dd < 0 THEN -1 ELSE 1
             g == GCD(Abs(n), Abs(dd))
         IN  [n |-> (s * n) \div g, d |-> (s * dd) \div g]

RInt(k) == [n |-> k, d |-> 1]

\* sums over the least common denominator, products cancelled crosswise
RAdd(a, b) ==
    IF a.n = 0 THEN b
    ELSE IF b.n = 0 THEN a
    ELSE LET g == GCD(a.d, b.d)
         IN  Rat(a.n * (b.d \div g) + b.n * (a.d \div g),
                 (a.d \div g) * b.d)
RNeg(a) == [n |-> -a.n, d |-> a.d]
RSub(a, b) == RAdd(a, RNeg(b))
RMul(a, b) ==
    IF a.n = 0 \/ b.n = 0 THEN RInt(0)
    ELSE LET g1 == GCD(Abs(a.n), b.d)
             g2 == GCD(Abs(b.n), a.d)
         IN  Rat((a.n \div g1) * (b.n \div g2),
                 (a.d \div g2) * (b.d \div g1))
RDiv(a, b) == RMul(a, Rat(b.d, b.n))
RLt(a, b) == RSub(a, b).n < 0
RLe(a, b) == RSub(a, b).n <= 0

-----------------------------------------------------------------------------
(* Dates: pandas Timestamp (dates only), DateOffset, MonthEnd, Period *)

NaT == [y |-> 0, m |-> 0, d |-> 0]

Date(y, m, dd) == [y |-> y, m |-> m, d |-> dd]

isna(t) == t = NaT

IsLeap(y) == (y % 4 = 0 /\ y % 100 # 0) \/ y % 400 = 0

DaysInMonth(y, m) ==
    IF m = 2 THEN (IF IsLeap(y) THEN 29 ELSE 28)
    ELSE IF m \in {4, 6, 9, 11} THEN 30 ELSE 31

\* the days of the year before month m
DaysBeforeMonth(y, m) ==
    <<0, 31, 59, 90, 120, 151, 181, 212, 243, 273, 304, 334>>[m]
    + (IF m > 2 /\ IsLeap(y) THEN 1 ELSE 0)

\* the proleptic Gregorian ordinal of a date
Ordinal(t) ==
    LET p == t.y - 1
    IN  365 * p + (p \div 4) - (p \div 100) + (p \div 400)
        + DaysBeforeMonth(t.y, t.m) + t.d

\* (a - b).days
DaysBetween(a, b) == Ordinal(a) - Ordinal(b)

DateLt(a, b) == Ordinal(a) < Ordinal(b)
DateLe(a, b) == Ordinal(a) <= Ordinal(b)

\* t + DateOffset(months=k): the month moves by k, the day is cut to the
\* length of the new month
AddMonths(t, k) ==
    LET total == t.y * 12 + (t.m - 1) + k
        y2 == total \div 12
        m2 == (total % 12) + 1
    IN  Date(y2, m2, Min(t.d, DaysInMonth(y2, m2)))

\* t + MonthEnd(0): rolls forward to the end of t's month
MonthEnd0(t) == Date(t.y, t.m, DaysInMonth(t.y, t.m))

\* t == t + MonthEnd(0)
IsMonthEnd(t) == t = MonthEnd0(t)

\* t.to_period("M"), as a month count
PeriodM(t) == t.y * 12 + t.m

\* max(issue_date, prev_coupon)
DateMax(a, b) == IF DateLt(a, b) THEN b ELSE a

-----------------------------------------------------------------------------
(* get_cashflows_from_bonds: inputs *)

face == 100
stub_tol_days == 3
DaysPerYear == 365

\* the most payment dates the forward loop is followed for
MaxPayments == 8

Freqs == {-2, 0, 2, 4, 24}

SettleDates == {Date(2001, 2, 28), Date(2001, 5, 15)}

MaturityDates ==
    {Date(2001, 2, 15), Date(2001, 5, 15), Date(2001, 8, 31), Date(2002, 8, 30)}

FirstCouponDates ==
    {NaT, Date(2000, 8, 31), Date(2001, 11, 15)}

IssueDates == {NaT, Date(1999, 8, 31), Date(2001, 4, 10)}

Coupons == {0, 6}

\* the rows of the bonds frame: bills carry no first-coupon date
Rows ==
    { r \in [date : SettleDates, maturity_date : MaturityDates,
             first_coupon_date : FirstCouponDates, issue_date : IssueDates,
             coupon : Coupons] :
        r.coupon = 0 => (isna(r.first_coupon_date) /\ isna(r.issue_date)) }

NoRow == [date |-> NaT, maturity_date |-> NaT, first_coupon_date |-> NaT,
          issue_date |-> NaT, coupon |-> 0]

NoStub == [applied |-> FALSE, stub_days |-> 0, regular_days |-> 0]

-----------------------------------------------------------------------------
(* get_cashflows_from_bonds: helpers *)

\* int(12 / freq): true division, then truncation toward zero
MonthsOf(f) == IF f > 0 THEN 12 \div f ELSE -(12 \div (-f))

\* face * (row["coupon"] / 100.0) / freq
CouponAmt(r, f) == Rat(face * r.coupon, 100 * f)

\* d - DateOffset(months=months), then + MonthEnd(0) under month_end
StepBack(t, k, me) ==
    LET p == AddMonths(t, -k) IN IF me THEN MonthEnd0(p) ELSE p

\* d + DateOffset(months=months) (+ MonthEnd(0) under month_end)
StepForward(t, k, me) ==
    LET n == AddMonths(t, k) IN IF me THEN MonthEnd0(n) ELSE n

\* prev <= settle < d, with the boundary on the wrong side
Straddles_Strict(prev, settle, t) == DateLt(prev, settle) /\ DateLt(settle, t)

\* prev <= settle < d
Straddles(prev, settle, t) == DateLe(prev, settle) /\ DateLt(settle, t)

\* the stub handling with the accrual taken from the issue date alone
StubOf_IssueOnly(r, dates, k, me) ==
    LET first_pay == dates[1]
        prev_coupon == StepBack(first_pay, k, me)
        regular_days == DaysBetween(first_pay, prev_coupon)
        accrual_start == IF ~isna(r.issue_date)
                         THEN r.issue_date
                         ELSE prev_coupon
        stub_days == DaysBetween(first_pay, accrual_start)
    IN  [applied |-> Abs(stub_days - regular_days) > stub_tol_days
                     /\ regular_days # 0,
         stub_days |-> stub_days, regular_days |-> regular_days]

\* the stub handling of a non-empty schedule
StubOf(r, dates, k, me) ==
    LET first_pay == dates[1]
        prev_coupon == StepBack(first_pay, k, me)
        regular_days == DaysBetween(first_pay, prev_coupon)
        accrual_start == IF ~isna(r.issue_date)
                         THEN DateMax(r.issue_date, prev_coupon)
                         ELSE prev_coupon
        stub_days == DaysBetween(first_pay, accrual_start)
    IN  [applied |-> Abs(stub_days - regular_days) > stub_tol_days
                     /\ regular_days # 0,
         stub_days |-> stub_days, regular_days |-> regular_days]

\* cf of a non-empty schedule: np.full, cf[-1] += face, then cf[0] = ...
CfOf(amt, n, st) ==
    LET full == [i \in 1..n |-> amt]
        withFace == [full EXCEPT ![n] = RAdd(full[n], RInt(face))]
    IN  IF st.applied
        THEN [withFace EXCEPT ![1] =
                  RMul(amt, Rat(st.stub_days, st.regular_days))]
        ELSE withFace

\* the schedule of a coupon bond with no payment date: one payment at maturity
EmptyCf(amt) == <<RAdd(amt, RInt(face))>>

\* (maturity_date - settle).days, the time of a payment at maturity
MaturityT(r) == <<DaysBetween(r.maturity_date, r.date)>>

\* the schedule of a bill
BillCf == <<RInt(face)>>

\* payment_times of a non-empty schedule, in days from settle
TimesOf(r, dates) ==
    [i \in 1..Len(dates) |-> DaysBetween(dates[i], r.date)]

-----------------------------------------------------------------------------
(* get_cashflows_from_bonds: the call *)

CashInit ==
    /\ pc = "start"
    /\ freq \in Freqs
    /\ nbonds \in 0..MaxBonds
    /\ remaining = nbonds
    /\ months = 0
    /\ row = NoRow
    /\ coupon_amt = RInt(0)
    /\ first_coupon = NaT
    /\ month_end = FALSE
    /\ d = NaT
    /\ payment_dates = <<>>
    /\ cf = <<>>
    /\ payment_times = <<>>
    /\ stub = NoStub
    /\ cashflows = <<>>
    /\ times = <<>>
    /\ result = "none"

\* the exception leaves the function: its locals are gone
Raise(err) ==
    /\ pc' = "raised"
    /\ result' = err
    /\ cashflows' = <<>>
    /\ times' = <<>>
    /\ cf' = <<>>
    /\ payment_times' = <<>>
    /\ payment_dates' = <<>>

\* months = int(12 / freq)
Call ==
    /\ CashFrame
    /\ pc = "start"
    /\ IF freq = 0
       THEN /\ Raise("ZeroDivisionError")
            /\ UNCHANGED <<months>>
       ELSE /\ months' = MonthsOf(freq)
            /\ pc' = "iter"
            /\ UNCHANGED <<result, cashflows, times, cf, payment_times,
                           payment_dates>>
    /\ UNCHANGED <<freq, nbonds, remaining, row, coupon_amt, first_coupon, month_end,
                   d, stub>>

\* the forward loop starts from first_coupon fc
StartForward(fc) ==
    /\ first_coupon' = fc
    /\ month_end' = IsMonthEnd(fc)
    /\ payment_dates' = <<>>
    /\ d' = fc
    /\ pc' = "forward"

\* for _, row in bonds.iterrows(): the row's terms, and the branch taken
NextRow ==
    /\ CashFrame
    /\ pc = "iter"
    /\ remaining > 0
    /\ \E r \in Rows :
        LET amt == CouponAmt(r, freq) IN
        /\ row' = r
        /\ coupon_amt' = amt
        /\ stub' = NoStub
        /\ IF RLt(RInt(0), amt) /\ isna(r.first_coupon_date)
           THEN /\ month_end' = IsMonthEnd(r.maturity_date)
                /\ d' = r.maturity_date
                /\ first_coupon' = NaT
                /\ pc' = "infer"
                /\ UNCHANGED <<payment_dates, cf, payment_times>>
           ELSE IF RLt(RInt(0), amt)
           THEN /\ StartForward(r.first_coupon_date)
                /\ UNCHANGED <<cf, payment_times>>
           ELSE /\ payment_times' = MaturityT(r)
                /\ cf' = BillCf
                /\ first_coupon' = r.first_coupon_date
                /\ pc' = "built"
                /\ UNCHANGED <<month_end, d, payment_dates>>
    /\ UNCHANGED <<freq, nbonds, remaining, months, cashflows, times, result>>

\* one pass of `while d > settle` of the inference, or its exit
InferStep ==
    /\ CashFrame
    /\ pc = "infer"
    /\ IF DateLt(row.date, d)
       THEN LET prev == StepBack(d, months, month_end) IN
            IF Straddles(prev, row.date, d)
            THEN /\ StartForward(d)
                 /\ UNCHANGED <<result, cashflows, times, cf, payment_times>>
            ELSE /\ d' = prev
                 /\ UNCHANGED <<pc, first_coupon, month_end, payment_dates,
                                result, cashflows, times, cf, payment_times>>
       ELSE /\ Raise("ValueError")
            /\ UNCHANGED <<first_coupon, month_end, d>>
    /\ UNCHANGED <<freq, nbonds, remaining, months, row, coupon_amt, stub>>

\* one pass of `while d.to_period("M") <= maturity_date.to_period("M")`
ForwardStep ==
    /\ CashFrame
    /\ pc = "forward"
    /\ PeriodM(d) <= PeriodM(row.maturity_date)
    /\ Len(payment_dates) < MaxPayments
    /\ payment_dates' = IF DateLt(row.date, d)
                        THEN Append(payment_dates, d)
                        ELSE payment_dates
    /\ d' = StepForward(d, months, month_end)
    /\ UNCHANGED <<pc, freq, nbonds, remaining, months, row, coupon_amt, first_coupon,
                   month_end, cf, payment_times, stub, cashflows, times,
                   result>>

\* the loop is left: payment_times and cf of the coupon bond
BuildSchedule ==
    /\ CashFrame
    /\ pc = "forward"
    /\ ~(PeriodM(d) <= PeriodM(row.maturity_date))
    /\ IF Len(payment_dates) = 0
       THEN /\ payment_times' = MaturityT(row)
            /\ cf' = EmptyCf(coupon_amt)
            /\ stub' = NoStub
       ELSE LET st == StubOf(row, payment_dates, months, month_end) IN
            /\ payment_times' = TimesOf(row, payment_dates)
            /\ cf' = CfOf(coupon_amt, Len(payment_dates), st)
            /\ stub' = st
    /\ pc' = "built"
    /\ UNCHANGED <<freq, nbonds, remaining, months, row, coupon_amt, first_coupon,
                   month_end, d, payment_dates, cashflows, times, result>>

\* cashflows.append(cf); times.append(payment_times). The row's locals are
\* never read again before the next row rebinds them: they are reset here.
AppendRow ==
    /\ CashFrame
    /\ pc = "built"
    /\ cashflows' = Append(cashflows, cf)
    /\ times' = Append(times, payment_times)
    /\ remaining' = remaining - 1
    /\ pc' = "iter"
    /\ row' = NoRow
    /\ coupon_amt' = RInt(0)
    /\ first_coupon' = NaT
    /\ month_end' = FALSE
    /\ d' = NaT
    /\ payment_dates' = <<>>
    /\ cf' = <<>>
    /\ payment_times' = <<>>
    /\ stub' = NoStub
    /\ UNCHANGED <<freq, nbonds, months, result>>

\* return cashflows, times
Return ==
    /\ CashFrame
    /\ pc = "iter"
    /\ remaining = 0
    /\ pc' = "returned"
    /\ result' = "returned"
    /\ UNCHANGED <<freq, nbonds, remaining, months, row, coupon_amt, first_coupon,
                   month_end, d, payment_dates, cf, payment_times, stub,
                   cashflows, times>>

CashNext ==
    \/ Call
    \/ NextRow
    \/ InferStep
    \/ ForwardStep
    \/ BuildSchedule
    \/ AppendRow
    \/ Return

\* the call has not been made
CashIdle ==
    /\ pc = "idle"
    /\ freq = 2
    /\ nbonds = 0
    /\ remaining = 0
    /\ months = 0
    /\ row = NoRow
    /\ coupon_amt = RInt(0)
    /\ first_coupon = NaT
    /\ month_end = FALSE
    /\ d = NaT
    /\ payment_dates = <<>>
    /\ cf = <<>>
    /\ payment_times = <<>>
    /\ stub = NoStub
    /\ cashflows = <<>>
    /\ times = <<>>
    /\ result = "none"

-----------------------------------------------------------------------------
(* get_nodes: inputs *)

\* floor(sqrt(n)): int(np.sqrt(n_bonds))
ISqrt(n) == CHOOSE r \in 0..n : r * r <= n /\ n < (r + 1) * (r + 1)

\* sorted maturities in half years: a base, a step per bond, and a jump
\* after the bond at position kink
MaturityFamily ==
    { [i \in 1..n |->
          Rat(base + step * (i - 1) + (IF i > kink THEN jump ELSE 0), 2)] :
      n \in 1..MaxSample, base \in {0, 1}, step \in {0, 1, 2},
      kink \in {1, 4, 8, 12}, jump \in {0, 3} }

\* the coefficient vectors a fit may give
BetaFamily(k) ==
    { [i \in 1..k |-> Rat(b0 + b1 * i, 10)] : b0 \in {-1, 0, 1}, b1 \in {0, 1} }

\* max(maturities)
SeqMax(sq, n) ==
    CHOOSE x \in {sq[i] : i \in 1..n} : \A i \in 1..n : RLe(sq[i], x)

\* np.ceil of a rational
RCeil(a) == RInt(-((-a.n) \div a.d))

-----------------------------------------------------------------------------
(* get_nodes *)

\* d_j of get_nodes, j = 2..n_knots-1, one index too far into the array
InteriorKnot_OffByOne(mat, k, jj) ==
    LET n == Len(mat)
        q == k - 2
        h == ((jj - 1) * n) \div q
        theta == Rat(((jj - 1) * n) % q, q)
    IN  RAdd(mat[h + 2], RMul(theta, RSub(mat[h + 3], mat[h + 2])))

\* d_j of get_nodes, j = 2..n_knots-1 (maturities[h] is mat[h + 1] here)
InteriorKnot(mat, k, jj) ==
    LET n == Len(mat)
        q == k - 2
        h == ((jj - 1) * n) \div q
        theta == Rat(((jj - 1) * n) % q, q)
    IN  RAdd(mat[h + 1], RMul(theta, RSub(mat[h + 2], mat[h + 1])))

SplineInit ==
    /\ spc = "start"
    /\ maturities \in MaturityFamily
    /\ ncoef = 0
    /\ j = 0
    /\ interior_knots = <<>>
    /\ knots = <<>>
    /\ beta_hat = <<>>
    /\ curve_df = <<>>
    /\ nodes_df = <<>>
    /\ serr = "none"
    /\ fit_in = <<>>
    /\ P_hat = <<>>

SplineIdle ==
    /\ spc = "idle"
    /\ maturities = <<>>
    /\ ncoef = 0
    /\ j = 0
    /\ interior_knots = <<>>
    /\ knots = <<>>
    /\ beta_hat = <<>>
    /\ curve_df = <<>>
    /\ nodes_df = <<>>
    /\ serr = "none"
    /\ fit_in = <<>>
    /\ P_hat = <<>>

\* n_bonds, n_knots, Tmax, ncoef; the loop starts at j = 2
GetNodesEnter ==
    /\ SplineFrame
    /\ spc = "start"
    /\ ncoef' = ISqrt(Len(maturities)) + 1
    /\ j' = 2
    /\ interior_knots' = <<>>
    /\ spc' = "knots"
    /\ UNCHANGED <<maturities, knots, beta_hat, curve_df, nodes_df, serr,
                   fit_in, P_hat>>

\* one pass of `for j in range(2, n_knots)`
KnotStep ==
    /\ SplineFrame
    /\ spc = "knots"
    /\ j < ncoef - 1
    /\ interior_knots' =
           Append(interior_knots, InteriorKnot(maturities, ncoef, j))
    /\ j' = j + 1
    /\ UNCHANGED <<spc, maturities, ncoef, knots, beta_hat, curve_df,
                   nodes_df, serr, fit_in, P_hat>>

\* d = np.r_[[0.0], interior_knots, [Tmax]]; return d, ncoef
GetNodesReturn ==
    /\ SplineFrame
    /\ spc = "knots"
    /\ ~(j < ncoef - 1)
    /\ knots' = <<RInt(0)>> \o interior_knots
                \o <<SeqMax(maturities, Len(maturities))>>
    /\ spc' = "nodes"
    /\ UNCHANGED <<maturities, ncoef, j, interior_knots, beta_hat, curve_df,
                   nodes_df, serr, fit_in, P_hat>>

-----------------------------------------------------------------------------
(* build_basis_matrix *)

RCube(a) == RMul(a, RMul(a, a))
RSquare(a) == RMul(a, a)

\* the checks at the head of build_basis_matrix: "ok" or the error raised
ValidateKnots(dseq, k) ==
    IF Len(dseq) # k - 1 THEN "ValueError: knot count"
    ELSE IF \E i \in 1..(Len(dseq) - 1) : RLt(dseq[i + 1], dseq[i])
    THEN "ValueError: knots decreasing"
    ELSE "ok"

\* d_{j-1}, d_j, d_{j+1} of f_j (d[i] of the code is dseq[i + 1] here)
KnotTriple(dseq, k, jj) ==
    IF jj = 1
    THEN [jm1 |-> RInt(0), j0 |-> dseq[1], jp1 |-> dseq[2]]
    ELSE [jm1 |-> dseq[jj - 1], j0 |-> dseq[jj],
          jp1 |-> IF jj < k - 1 THEN dseq[jj + 1] ELSE dseq[Len(dseq)]]

\* (A.3) with the cube taken from d_j
Piece2_FromDj(t, m) ==
    LET denom == RMul(RInt(6), RSub(t.j0, t.jm1))
    IN  IF denom.n # 0 THEN RDiv(RCube(RSub(m, t.j0)), denom) ELSE RInt(0)

\* (A.3): ((m - d_jm1) ** 3) / denom; out stays 0 when denom is 0
Piece2(t, m) ==
    LET denom == RMul(RInt(6), RSub(t.j0, t.jm1))
    IN  IF denom.n # 0 THEN RDiv(RCube(RSub(m, t.jm1)), denom) ELSE RInt(0)

\* (A.4) with c*e/3 for c*e/2
Piece3_WrongSlope(t, m) ==
    LET c == RSub(t.j0, t.jm1)
        e == RSub(m, t.j0)
        denom == RMul(RInt(6), RSub(t.jp1, t.j0))
        head == RAdd(RAdd(RDiv(RSquare(c), RInt(6)), RDiv(RMul(c, e), RInt(3))),
                     RDiv(RSquare(e), RInt(2)))
    IN  IF denom.n # 0 THEN RSub(head, RDiv(RCube(e), denom)) ELSE head

\* (A.4): c**2/6 + c*e/2 + e**2/2 - e**3/denom
Piece3(t, m) ==
    LET c == RSub(t.j0, t.jm1)
        e == RSub(m, t.j0)
        denom == RMul(RInt(6), RSub(t.jp1, t.j0))
        head == RAdd(RAdd(RDiv(RSquare(c), RInt(6)), RDiv(RMul(c, e), RInt(2))),
                     RDiv(RSquare(e), RInt(2)))
    IN  IF denom.n # 0 THEN RSub(head, RDiv(RCube(e), denom)) ELSE head

\* (A.5): (d_jp1 - d_jm1) * ((2 d_jp1 - d_j - d_jm1)/6 + (m - d_jp1)/2)
Piece4(t, m) ==
    RMul(RSub(t.jp1, t.jm1),
         RAdd(RDiv(RSub(RSub(RMul(RInt(2), t.jp1), t.j0), t.jm1), RInt(6)),
              RDiv(RSub(m, t.jp1), RInt(2))))

\* the piece whose mask holds at m; a later mask overwrites an earlier one
PieceAt(t, m) ==
    IF RLe(t.jp1, m) THEN 4
    ELSE IF RLe(t.j0, m) /\ RLt(m, t.jp1) THEN 3
    ELSE IF RLe(t.jm1, m) /\ RLt(m, t.j0) THEN 2
    ELSE 1

\* the formula of piece p, at any m
PieceVal(p, t, m) ==
    IF p = 4 THEN Piece4(t, m)
    ELSE IF p = 3 THEN Piece3(t, m)
    ELSE IF p = 2 THEN Piece2(t, m)
    ELSE RInt(0)

\* f_j(m) for j = 1..k-1
f_j(m, jj, dseq, k) ==
    LET t == KnotTriple(dseq, k, jj) IN PieceVal(PieceAt(t, m), t, m)

\* one row of F: f_1(m) .. f_{k-1}(m), then f_k(m) = m
BasisRow(m, dseq, k) ==
    [col \in 1..k |-> IF col < k THEN f_j(m, col, dseq, k) ELSE m]

RECURSIVE Dot(_, _, _)
Dot(u, v, n) ==
    IF n = 0 THEN RInt(0) ELSE RAdd(Dot(u, v, n - 1), RMul(u[n], v[n]))

\* D = 1.0 + F @ beta, one row
DiscountAt(beta, m, dseq, k) ==
    RAdd(RInt(1), Dot(BasisRow(m, dseq, k), beta, k))

-----------------------------------------------------------------------------
(* fit and discount_curve *)

\* what the caller hands to fit with bond i, in small amounts: the coupon
\* per payment, the last payment, the clean price and the accrued interest;
\* bills and coupon bonds with accrued interest alternate
QuoteOf(i) ==
    IF i % 2 = 1
    THEN [coupon |-> 1, last |-> 3, price |-> 2, ai |-> 1]
    ELSE [coupon |-> 0, last |-> 2, price |-> 1, ai |-> 0]

\* cashflows[i], times[i], prices_clean[i], ai[i] of the bond of maturity m:
\* the last payment at m and, for a coupon bond, a coupon at 1/2
BondIn(m, q) ==
    IF q.coupon = 0 \/ RLe(m, Rat(1, 2))
    THEN [cf |-> <<RInt(q.last)>>, t |-> <<m>>,
          price |-> RInt(q.price), ai |-> RInt(q.ai)]
    ELSE [cf |-> <<RInt(q.coupon), RInt(q.last)>>,
          t |-> <<Rat(1, 2), m>>,
          price |-> RInt(q.price), ai |-> RInt(q.ai)]

\* C_i = np.sum(cf_i)
RECURSIVE SumCf(_, _)
SumCf(b, n) == IF n = 0 THEN RInt(0) ELSE RAdd(SumCf(b, n - 1), b.cf[n])

\* one column of X_i = np.sum(cf_i[:, None] * F_i, axis=0)
RECURSIVE DesignCol(_, _, _, _, _)
DesignCol(b, dseq, k, col, n) ==
    IF n = 0 THEN RInt(0)
    ELSE RAdd(DesignCol(b, dseq, k, col, n - 1),
              RMul(b.cf[n],
                   IF col < k THEN f_j(b.t[n], col, dseq, k) ELSE b.t[n]))

\* X_i of fit
DesignRow(b, dseq, k) ==
    [col \in 1..k |-> DesignCol(b, dseq, k, col, Len(b.cf))]

\* the right-hand side without the accrued interest
RhsOf_GrossPrice(b) == RSub(b.price, SumCf(b, Len(b.cf)))

\* rhs.append(P_i - (C_i - ai_i))
RhsOf(b) == RSub(b.price, RSub(SumCf(b, Len(b.cf)), b.ai))

\* P_i_dirty = np.sum(cf_i * D), D = discount(beta, t_i, d, ncoef)
RECURSIVE DirtyPrice(_, _, _, _, _)
DirtyPrice(beta, b, dseq, k, n) ==
    IF n = 0 THEN RInt(0)
    ELSE RAdd(DirtyPrice(beta, b, dseq, k, n - 1),
              RMul(b.cf[n], DiscountAt(beta, b.t[n], dseq, k)))

\* P_i = P_i_dirty - accrued_interest[i]
PredictPrice(beta, b, dseq, k) ==
    RSub(DirtyPrice(beta, b, dseq, k, Len(b.cf)), b.ai)

\* fit: build_basis_matrix checks the knots; the least-squares solution is
\* any coefficient vector
Fit ==
    /\ SplineFrame
    /\ spc = "nodes"
    /\ fit_in' = [i \in 1..Len(maturities) |->
                     BondIn(maturities[i], QuoteOf(i))]
    /\ LET v == ValidateKnots(knots, ncoef) IN
       IF v = "ok"
       THEN /\ \E b \in BetaFamily(ncoef) : beta_hat' = b
            /\ spc' = "fitted"
            /\ UNCHANGED serr
       ELSE /\ serr' = v
            /\ spc' = "raised"
            /\ UNCHANGED beta_hat
    /\ UNCHANGED <<maturities, ncoef, j, interior_knots, knots, curve_df,
                   nodes_df, P_hat>>

\* predict_prices(beta_hat, cashflows, times, d, ncoef, acc_int)
PredictPrices ==
    /\ SplineFrame
    /\ spc = "fitted"
    /\ P_hat' = [i \in 1..Len(fit_in) |->
                    PredictPrice(beta_hat, fit_in[i], knots, ncoef)]
    /\ spc' = "priced"
    /\ UNCHANGED <<maturities, ncoef, j, interior_knots, knots, beta_hat,
                   curve_df, nodes_df, serr, fit_in>>

\* np.linspace(0, np.ceil(max(bonds["ttm"])), GridN)
T_grid ==
    LET top == RCeil(SeqMax(maturities, Len(maturities)))
    IN  [i \in 1..GridN |-> RDiv(RMul(RInt(i - 1), top), RInt(GridN - 1))]

\* discount_curve: D on the knots and on the grid
DiscountCurve ==
    /\ SplineFrame
    /\ spc = "priced"
    /\ nodes_df' = [i \in 1..Len(knots) |->
                       [T |-> knots[i],
                        discount |-> DiscountAt(beta_hat, knots[i], knots,
                                                ncoef)]]
    /\ curve_df' = [i \in 1..GridN |->
                       [T |-> T_grid[i],
                        discount |-> DiscountAt(beta_hat, T_grid[i], knots,
                                                ncoef)]]
    /\ spc' = "curve"
    /\ UNCHANGED <<maturities, ncoef, j, interior_knots, knots, beta_hat,
                   serr, fit_in, P_hat>>

SplineNext ==
    \/ GetNodesEnter
    \/ KnotStep
    \/ GetNodesReturn
    \/ Fit
    \/ PredictPrices
    \/ DiscountCurve

-----------------------------------------------------------------------------
(* Specifications *)

\* no OptimizeResult yet
NoOpt == [success |-> FALSE, status |-> -1, x |-> "none"]

\* fit has given nothing back yet
NoFit == [kind |-> "none", params |-> "none", objective |-> "none",
          error |-> "none"]

\* the filters and the NSS fit are not called
GswIdle ==
    /\ gpc = "idle"
    /\ dff = <<>>
    /\ df_out = <<>>
    /\ opt = NoOpt
    /\ fit_out = NoFit

\* a curve frame: the columns it has and its rows
NoCurve == [cols |-> {}, rows |-> <<>>]

\* no converter has been called yet
NoConv == [op |-> "none", error |-> "none", out |-> NoCurve]

\* no curve converter is called
CurveIdle ==
    /\ cpc = "idle"
    /\ curve = NoCurve
    /\ dt = [n |-> 1, d |-> 1]
    /\ conv = NoConv

\* no score has been computed yet
NoScore == [op |-> "none", finite |-> FALSE, value |-> [n |-> 0, d |-> 1]]

\* no score is computed
MetricIdle ==
    /\ mpc = "idle"
    /\ quotes = <<>>
    /\ score = NoScore

\* the caller's frame after a function wrote to the frame it was handed
CallerAfter_InPlace(caller, local) == local

\* the caller's frame after a function worked on a copy of it: .copy(),
\* .sort_values() and .loc[mask].reset_index() each give a new frame, so
\* what is written to the local frame is not written to the caller's
CallerAfter(caller, local) == caller

\* get_full_error_metrics has given nothing back yet
NoReport == [kind |-> "none", error |-> "none", rows |-> <<>>]

\* neither run_mcculloch nor get_full_error_metrics is called
BatchIdle ==
    /\ bpc = "idle"
    /\ sample = <<>>
    /\ todo = <<>>
    /\ results = <<>>
    /\ report = NoReport
    /\ berr = "none"

\* one call of get_cashflows_from_bonds
Init ==
    CashInit /\ SplineIdle /\ GswIdle /\ CurveIdle /\ MetricIdle /\ BatchIdle

Next == CashNext

Spec == Init /\ [][Next]_vars

\* the spline fit of one date: get_nodes, fit, predict_prices,
\* discount_curve
InitSpline ==
    SplineInit /\ CashIdle /\ GswIdle /\ CurveIdle /\ MetricIdle /\ BatchIdle

NextSpline == SplineNext

SpecSpline == InitSpline /\ [][NextSpline]_vars

-----------------------------------------------------------------------------
(* get_cashflows_from_bonds: properties *)

\* a payment time in years: days / 365.0
TimeYears(days) == Rat(days, DaysPerYear)

\* the row at hand is a coupon bond whose schedule has just been built
BuiltCoupon == pc = "built" /\ RLt(RInt(0), coupon_amt)

\* the first coupon scaled by the stub ratio the row's dates give
ScaledFirst ==
    LET first_pay == payment_dates[1]
        shifted == AddMonths(first_pay, -months)
        synthetic == IF IsMonthEnd(first_coupon) THEN MonthEnd0(shifted)
                     ELSE shifted
        regular == Ordinal(first_pay) - Ordinal(synthetic)
        start == IF isna(row.issue_date) THEN synthetic
                 ELSE IF DateLt(synthetic, row.issue_date) THEN row.issue_date
                 ELSE synthetic
        actual == Ordinal(first_pay) - Ordinal(start)
    IN  [cond |-> Abs(actual - regular) > 3 /\ regular # 0,
         amount |-> IF regular = 0 THEN coupon_amt
                    ELSE Rat(coupon_amt.n * actual, coupon_amt.d * regular)]

\* C1: in every schedule of a coupon bond each payment before the last equals
\* face*coupon/100/freq (the first one may carry the stub scaling), and the
\* last amount is the face value on top of its coupon, also in a schedule of
\* one payment and also when the stub adjustment applies.
C1_LastIncludesFace ==
    BuiltCoupon =>
        LET n == Len(cf)
            regular == Rat(face * row.coupon, 100 * freq)
        IN  /\ n >= 1
            /\ \A i \in 1..(n - 1) :
                   cf[i] = regular
                   \/ (i = 1 /\ Len(payment_dates) > 0 /\ ScaledFirst.cond)
            /\ \/ cf[n] = RAdd(regular, RInt(face))
               \/ /\ n = 1 /\ Len(payment_dates) > 0 /\ ScaledFirst.cond
                  /\ cf[n] = RAdd(ScaledFirst.amount, RInt(face))

\* C2: whenever a schedule is built for a row (bill or coupon bond), its
\* payment times are strictly increasing and none is negative.
C2_TimesIncreasingNonNegative ==
    pc = "built" =>
        /\ \A i \in 1..Len(payment_times) :
               RLe(RInt(0), TimeYears(payment_times[i]))
        /\ \A i \in 1..(Len(payment_times) - 1) :
               RLt(TimeYears(payment_times[i]), TimeYears(payment_times[i + 1]))

PaysOnceAtMaturity ==
    /\ cf = <<RAdd(Rat(face * row.coupon, 100 * freq), RInt(face))>>
    /\ payment_times = <<Ordinal(row.maturity_date) - Ordinal(row.date)>>

\* C4 as stated: a coupon bond with an empty payment-date list gets one
\* payment at maturity of coupon_amt + face, and the list is empty only when
\* settle lies within the last coupon period before maturity.
C4_EmptyOnlyInLastPeriod ==
    (BuiltCoupon /\ Len(payment_dates) = 0) =>
        /\ PaysOnceAtMaturity
        /\ DateLe(AddMonths(row.maturity_date, -months), row.date)
        /\ DateLe(row.date, row.maturity_date)

\* fc is met when stepping back from t in whole steps
RECURSIVE OnBackwardWalk(_, _, _, _)
OnBackwardWalk(t, fc, k, me) ==
    /\ DateLe(fc, t)
    /\ (fc = t \/ OnBackwardWalk(StepBack(t, k, me), fc, k, me))

\* the row at hand is a coupon bond that came without a first-coupon date
NeedsInference ==
    /\ pc \in {"infer", "forward", "built", "raised"}
    /\ RLt(RInt(0), coupon_amt)
    /\ isna(row.first_coupon_date)

\* C5: for a coupon bond without a first-coupon date the inferred first
\* coupon d is maturity stepped back a whole number of times with
\* (d minus one step) <= settle < d; with settle >= maturity the call ends in
\* an error and gives back no schedule of any bond, and only then.
C5_InferredFirstCoupon ==
    NeedsInference =>
        LET me == IsMonthEnd(row.maturity_date) IN
        /\ pc \in {"forward", "built"} =>
               /\ DateLt(row.date, row.maturity_date)
               /\ OnBackwardWalk(row.maturity_date, first_coupon, months, me)
               /\ DateLe(StepBack(first_coupon, months, me), row.date)
               /\ DateLt(row.date, first_coupon)
        /\ pc = "raised" =>
               /\ DateLe(row.maturity_date, row.date)
               /\ result = "ValueError"
               /\ cashflows = <<>> /\ times = <<>>
               /\ cf = <<>> /\ payment_times = <<>>

\* the inference stepped back at least twice before it found the boundary
C5_WitnessInferred ==
    /\ NeedsInference
    /\ pc = "built"
    /\ DateLt(first_coupon, StepBack(row.maturity_date, months,
                                     IsMonthEnd(row.maturity_date)))

\* the error came at the second bond of the call
C5_WitnessError ==
    /\ NeedsInference
    /\ pc = "raised"
    /\ nbonds - remaining >= 1

C5_Witness == C5_WitnessError

\* C6: a call with freq = 0 or freq < 0 ends in an error and gives back no
\* cash-flow schedule of any bond.
C6_NonPositiveFreqFails ==
    freq <= 0 => ~(pc = "returned" /\ Len(cashflows) > 0)

-----------------------------------------------------------------------------
(* get_nodes, build_basis_matrix, discount_curve: properties *)

\* get_nodes has returned
NodesBuilt == spc \in {"nodes", "fitted", "priced", "curve", "raised"}

NonDecreasing(sq) == \A i \in 1..(Len(sq) - 1) : RLe(sq[i], sq[i + 1])

StrictlyIncreasing(sq) == \A i \in 1..(Len(sq) - 1) : RLt(sq[i], sq[i + 1])

\* C7: for every sample of n_bonds >= 1 bonds with ascending non-negative
\* maturities the pair (d, ncoef) of get_nodes has len(d) = ncoef - 1 and d
\* non-decreasing, and the fit is not rejected by build_basis_matrix.
C7_NodesFitBasis ==
    NodesBuilt =>
        /\ Len(knots) = ncoef - 1
        /\ NonDecreasing(knots)
        /\ serr = "none"

\* the value at fractional position pos of the sorted maturities (positions
\* count from 0), linearly interpolated between the neighbours
AtPosition(pos) ==
    LET lo == pos.n \div pos.d
        below == maturities[lo + 1]
        above == maturities[lo + 2]
    IN  RAdd(below, RMul(RSub(pos, RInt(lo)), RSub(above, below)))

\* knots start at 0, end at max(maturity), and hold cnt interior knots at
\* the positions i*n_bonds/(ncoef-2), i = 1..cnt
KnotsAre(cnt) ==
    LET n == Len(maturities) IN
    /\ (ncoef - 1) * (ncoef - 1) <= n /\ n < ncoef * ncoef
    /\ Len(knots) = cnt + 2
    /\ knots[1] = RInt(0)
    /\ \A i \in 1..n : RLe(maturities[i], knots[cnt + 2])
    /\ \E i \in 1..n : maturities[i] = knots[cnt + 2]
    /\ \A i \in 1..cnt : knots[i + 1] = AtPosition(Rat(i * n, ncoef - 2))

\* C8 as stated: ncoef = floor(sqrt(n_bonds)) + 1 and the knot vector is 0,
\* then exactly ncoef - 2 interior knots at the fractional positions
\* j*n_bonds/(ncoef-2) of the sorted maturities, then max(maturity).
C8_InteriorCountAsStated ==
    NodesBuilt =>
        /\ Len(interior_knots) = ncoef - 2
        /\ Len(knots) = ncoef
        /\ knots[1] = RInt(0)

\* C8 amended: ncoef = floor(sqrt(n_bonds)) + 1 and the knot vector is 0, then
\* exactly ncoef - 3 interior knots (none when ncoef <= 3) at the fractional
\* positions j*n_bonds/(ncoef-2), j = 1..ncoef-3, of the sorted maturities,
\* linearly interpolated, then max(maturity).
C8_KnotVector ==
    NodesBuilt => KnotsAre(IF ncoef >= 3 THEN ncoef - 3 ELSE 0)

\* two interior knots, the first strictly between two maturities
C8_Witness ==
    /\ NodesBuilt
    /\ Len(interior_knots) = 2
    /\ \A i \in 1..Len(maturities) : maturities[i] # knots[2]
    /\ RLt(knots[2], knots[3])

\* C9: for any beta and any knot vector of get_nodes every basis column is 0
\* at t = 0, the spline discount there is 1, and the first row (T = 0) of the
\* curve of discount_curve has discount 1.
C9_DiscountAtZero ==
    spc \in {"fitted", "curve"} =>
        /\ \A col \in 1..ncoef : BasisRow(RInt(0), knots, ncoef)[col] = RInt(0)
        /\ \A b \in BetaFamily(ncoef) :
               DiscountAt(b, RInt(0), knots, ncoef) = RInt(1)
        /\ spc = "curve" =>
               curve_df[1] = [T |-> RInt(0), discount |-> RInt(1)]

\* a curve of a non-zero beta over two interior knots that leaves 1 later on
C9_Witness ==
    /\ spc = "curve"
    /\ ncoef = 5
    /\ RLt(RInt(0), knots[2])
    /\ \A i \in 1..ncoef : beta_hat[i] # RInt(0)
    /\ curve_df[1].T = RInt(0)
    /\ curve_df[2].discount # RInt(1)

\* half the smallest gap between neighbouring knots
RECURSIVE HalfMinGap(_, _)
HalfMinGap(sq, n) ==
    IF n <= 1 THEN RInt(1)
    ELSE LET g == RDiv(RSub(sq[n], sq[n - 1]), RInt(2))
             r == HalfMinGap(sq, n - 1)
         IN  IF n = 2 \/ RLt(g, r) THEN g ELSE r

\* the slope at x of the cubic that piece p is, from its values around x
\* (the five-point rule is exact for cubics)
PieceSlope(p, t, x) ==
    LET v(k) == PieceVal(p, t, RAdd(x, RInt(k)))
    IN  RDiv(RSub(RMul(RInt(8), RSub(v(1), v(-1))), RSub(v(2), v(-2))),
             RInt(12))

\* the pieces of f_j in force just before x and at x
LeftPiece(jj, x) ==
    PieceAt(KnotTriple(knots, ncoef, jj),
            RSub(x, HalfMinGap(knots, Len(knots))))

RightPiece(jj, x) == PieceAt(KnotTriple(knots, ncoef, jj), x)

\* f_j has no jump in value or slope at x
SmoothAt(jj, x) ==
    LET t == KnotTriple(knots, ncoef, jj) IN
    /\ PieceVal(LeftPiece(jj, x), t, x) = PieceVal(RightPiece(jj, x), t, x)
    /\ PieceSlope(LeftPiece(jj, x), t, x) = PieceSlope(RightPiece(jj, x), t, x)

\* the value and the slope of 1 + basis*beta taken from the pieces in force
\* just before x
LeftDiscount(b, x) ==
    LET val == [col \in 1..ncoef |->
                   IF col < ncoef
                   THEN PieceVal(LeftPiece(col, x),
                                 KnotTriple(knots, ncoef, col), x)
                   ELSE x]
        slope == [col \in 1..ncoef |->
                     IF col < ncoef
                     THEN PieceSlope(LeftPiece(col, x),
                                     KnotTriple(knots, ncoef, col), x)
                     ELSE RInt(1)]
    IN  [value |-> RAdd(RInt(1), Dot(val, b, ncoef)),
         slope |-> Dot(slope, b, ncoef)]

RightDiscount(b, x) ==
    LET slope == [col \in 1..ncoef |->
                     IF col < ncoef
                     THEN PieceSlope(RightPiece(col, x),
                                     KnotTriple(knots, ncoef, col), x)
                     ELSE RInt(1)]
    IN  [value |-> DiscountAt(b, x, knots, ncoef),
         slope |-> Dot(slope, b, ncoef)]

\* C10: for strictly increasing knots every basis function f_j, j = 1..k-1,
\* has the same value and the same slope on either side of every knot, and so
\* has the discount curve 1 + basis*beta.
C10_SmoothAtKnots ==
    (spc \in {"fitted", "curve"} /\ StrictlyIncreasing(knots)) =>
        /\ \A jj \in 1..(ncoef - 1) : \A i \in 1..Len(knots) :
               SmoothAt(jj, knots[i])
        /\ \A i \in 1..Len(knots) :
               LeftDiscount(beta_hat, knots[i]) =
                   RightDiscount(beta_hat, knots[i])

\* strictly increasing knots, two of them interior; at the first interior
\* knot f_2 passes from (A.3) to (A.4) and f_1 from (A.4) to (A.5)
C10_Witness ==
    /\ spc = "curve"
    /\ ncoef = 5
    /\ StrictlyIncreasing(knots)
    /\ \A i \in 1..ncoef : beta_hat[i] # RInt(0)
    /\ LeftPiece(2, knots[2]) = 2 /\ RightPiece(2, knots[2]) = 3
    /\ LeftPiece(1, knots[2]) = 3 /\ RightPiece(1, knots[2]) = 4
    /\ LeftPiece(4, knots[4]) = 2 /\ RightPiece(4, knots[4]) = 4

-----------------------------------------------------------------------------
(* gurkaynak_sack_wright_filters and fit (gsw2006_yield_curve.py) *)

\* the largest number of rows of the frame handed to the filters
MaxTable == 2

\* the quote dates of the rows: around 1980-01-01 and around the decay year
CalDates ==
    {Date(1979, 12, 31), Date(1980, 1, 1), Date(1995, 1, 2), Date(1995, 7, 3),
     Date(1996, 1, 2), Date(1996, 1, 3)}

\* the run ranks: 0 is the most recently issued security of its bucket
RunRanks == {0, 1, 2, 3}

OriginalMaturities == {10, 20}

\* rows that the filters 1, 3 and 5 keep
PlainRows ==
    [caldt : CalDates, run : RunRanks, original_maturity : OriginalMaturities,
     days_to_maturity : {200}, itype : {2}, callable : {FALSE}]

\* rows close to maturity, bills and callable bonds
OtherRows ==
    { r \in [caldt : {Date(1995, 7, 3)}, run : {3},
             original_maturity : OriginalMaturities,
             days_to_maturity : {92, 200}, itype : {1, 4},
             callable : BOOLEAN] :
        \/ r.days_to_maturity = 92 /\ r.itype = 1 /\ ~r.callable
        \/ r.days_to_maturity = 200 /\ r.itype = 4 /\ ~r.callable
        \/ r.days_to_maturity = 200 /\ r.itype = 1 /\ r.callable }

GswRows == PlainRows \cup OtherRows

\* the frame of the rows f[1..n]: every row carries its position id in the
\* input (and the weight column, 1.0 when Filter 4 creates it)
TableOf(f, n) == [i \in 1..n |-> [id |-> i, weight |-> RInt(1), r |-> f[i]]]

\* Filter 1: df["days_to_maturity"] > 92
LongEnough(x) == x.r.days_to_maturity > 92

\* post_1980 of one row
post_1980(x) == DateLe(Date(1980, 1, 1), x.r.caldt)

\* the rank up to which Filter 2 removes a post-1980 row
RunCut == 2

\* Filter 2: ~(post_1980 & (df["run"] <= 2))
NotOnTheRun(x) == ~(post_1980(x) /\ x.r.run <= RunCut)

\* Filter 3: df["itype"].isin([1, 2])
NoteOrBond(x) == x.r.itype \in {1, 2}

cutoff_date == Date(1996, 1, 2)

\* cutoff_date - pd.DateOffset(years=1)
decay_start == AddMonths(cutoff_date, -12)

decay_days == DaysBetween(cutoff_date, decay_start)

mask_decay(x) ==
    /\ x.r.original_maturity = 20
    /\ DateLe(decay_start, x.r.caldt)
    /\ DateLe(x.r.caldt, cutoff_date)

\* a decay factor that grows from 0 to 1 over the year
decay_factor_Rising(x) == Rat(DaysBetween(x.r.caldt, decay_start), decay_days)

\* 1 - ((df["caldt"] - decay_start).dt.days / decay_days)
decay_factor(x) ==
    RSub(RInt(1), Rat(DaysBetween(x.r.caldt, decay_start), decay_days))

mask_exclude(x) ==
    x.r.original_maturity = 20 /\ DateLt(cutoff_date, x.r.caldt)

\* Filter 4: the weight column of one row
Weighted(x) ==
    LET w1 == IF mask_decay(x) THEN RMul(x.weight, decay_factor(x))
              ELSE x.weight
        w2 == IF mask_exclude(x) THEN RInt(0) ELSE w1
    IN  [x EXCEPT !.weight = w2]

\* Filter 5: ~df["callable"]
NotCallable(x) == ~x.r.callable

\* df["weight"] > 0
PositiveWeight(x) == RLt(RInt(0), x.weight)

\* the mask of one filter, at one row
Mask(filter, x) ==
    CASE filter = 1 -> LongEnough(x)
      [] filter = 2 -> NotOnTheRun(x)
      [] filter = 3 -> NoteOrBond(x)
      [] filter = 5 -> NotCallable(x)
      [] OTHER -> PositiveWeight(x)

\* df[mask]: the rows of df, from row i on, that the mask keeps
RECURSIVE Select(_, _, _)
Select(df, filter, i) ==
    IF i > Len(df) THEN <<>>
    ELSE (IF Mask(filter, df[i]) THEN <<df[i]>> ELSE <<>>)
             \o Select(df, filter, i + 1)

gurkaynak_sack_wright_filters(frame) ==
    LET f1 == Select(frame, 1, 1)
        f2 == Select(f1, 2, 1)
        f3 == Select(f2, 3, 1)
        f4 == [i \in 1..Len(f3) |-> Weighted(f3[i])]
        f5 == Select(f4, 5, 1)
    IN  Select(f5, 6, 1)

\* what minimize() can report: status 0 is convergence, 1 the iteration or
\* evaluation budget, 2 an abnormal end; success is status = 0
OptimizeResults ==
    { [success |-> TRUE, status |-> 0, x |-> "x_a"],
      [success |-> FALSE, status |-> 1, x |-> "x_a"],
      [success |-> FALSE, status |-> 2, x |-> "x_b"] }

\* a fit that hands back the last iterate whatever the optimizer reports
FitResult_Unchecked(res) ==
    [kind |-> "returned", params |-> res.x,
     objective |-> <<"mean_squared_error", res.x>>, error |-> "none"]

\* lines 268-273 of fit: raise on failure, else (param_star, objective)
FitResult(res) ==
    IF ~res.success
    THEN [kind |-> "raised", params |-> "none", objective |-> "none",
          error |-> "RuntimeError"]
    ELSE [kind |-> "returned", params |-> res.x,
          objective |-> <<"mean_squared_error", res.x>>, error |-> "none"]

GswInit ==
    /\ gpc = "start"
    /\ \E n \in 0..MaxTable : \E f \in [1..n -> GswRows] : dff = TableOf(f, n)
    /\ df_out = <<>>
    /\ opt = NoOpt
    /\ fit_out = NoFit

\* df = gurkaynak_sack_wright_filters(dff)
ApplyFilters ==
    /\ gpc = "start"
    /\ df_out' = gurkaynak_sack_wright_filters(dff)
    /\ gpc' = "filtered"
    /\ dff' = CallerAfter(dff, gurkaynak_sack_wright_filters(dff))
    /\ UNCHANGED <<opt, fit_out>>
    /\ GswFrame

\* fit(quote_date, df_all): minimize() reports, fit raises or returns
FitCall ==
    /\ gpc = "filtered"
    /\ \E res \in OptimizeResults :
          /\ opt' = res
          /\ fit_out' = FitResult(res)
    /\ gpc' = "fitted"
    /\ UNCHANGED <<dff, df_out>>
    /\ GswFrame

GswNext ==
    \/ ApplyFilters
    \/ FitCall

\* the filters and the NSS fit of one quote date
InitGsw ==
    GswInit /\ CashIdle /\ SplineIdle /\ CurveIdle /\ MetricIdle /\ BatchIdle

NextGsw == GswNext

SpecGsw == InitGsw /\ [][NextGsw]_vars

-----------------------------------------------------------------------------
(* Properties of the filters and of the NSS fit *)

Filtered == gpc \in {"filtered", "fitted"}

\* the row of df_out that came from input row i, if any
Returned(i) == \E k \in 1..Len(df_out) : df_out[k].id = i

WeightOf(i) == (CHOOSE x \in {df_out[k] : k \in 1..Len(df_out)} : x.id = i).weight

\* the filters other than the run filter keep the row
KeptByOthers(x) ==
    /\ LongEnough(x) /\ NoteOrBond(x) /\ NotCallable(x)
    /\ PositiveWeight(Weighted(x))

\* C11: for quote dates >= 1980-01-01 the run filter removes exactly the rows
\* of run rank 0 and 1 and keeps every higher rank; rows quoted before
\* 1980-01-01 are never removed by it.
C11_RunFilterRemovesTwo ==
    Filtered =>
        \A i \in 1..Len(dff) :
            LET x == dff[i]
            IN  /\ (post_1980(x) /\ x.r.run \in {0, 1}) => ~Returned(i)
                /\ (KeptByOthers(x) /\ post_1980(x) /\ x.r.run >= 2)
                        => Returned(i)
                /\ (KeptByOthers(x) /\ ~post_1980(x)) => Returned(i)

\* the filters other than the 20-year rule keep the row
KeptByRest(x) ==
    LongEnough(x) /\ NotOnTheRun(x) /\ NoteOrBond(x) /\ NotCallable(x)

InDecayYear(t) == DateLe(Date(1995, 1, 2), t) /\ DateLe(t, Date(1996, 1, 2))

\* 1 - (days since 1995-01-02) / (days from 1995-01-02 to 1996-01-02)
LinearDecay(t) ==
    RSub(RInt(1), Rat(DaysBetween(t, Date(1995, 1, 2)),
                      DaysBetween(Date(1996, 1, 2), Date(1995, 1, 2))))

\* C12: a 20-year bond quoted in [1995-01-02, 1996-01-02] gets the linearly
\* decaying weight (1 at the start, 0 at the end, where the row is dropped),
\* a 20-year bond quoted later is excluded, every other row has weight 1, and
\* every returned row has a weight in (0, 1].
C12_TwentyYearDecay ==
    Filtered =>
        /\ \A i \in 1..Len(dff) :
              LET x == dff[i]
                  t == x.r.caldt
              IN  KeptByRest(x) =>
                    IF x.r.original_maturity = 20 /\ InDecayYear(t)
                    THEN /\ Returned(i) <=> RLt(RInt(0), LinearDecay(t))
                         /\ Returned(i) => WeightOf(i) = LinearDecay(t)
                    ELSE IF x.r.original_maturity = 20
                              /\ DateLt(Date(1996, 1, 2), t)
                    THEN ~Returned(i)
                    ELSE Returned(i) /\ WeightOf(i) = RInt(1)
        /\ LinearDecay(Date(1995, 1, 2)) = RInt(1)
        /\ LinearDecay(Date(1996, 1, 2)) = RInt(0)
        /\ \A k \in 1..Len(df_out) :
              RLt(RInt(0), df_out[k].weight) /\ RLe(df_out[k].weight, RInt(1))

\* a 20-year bond quoted inside the decay year came back with a weight
\* strictly between 0 and 1, next to a row of weight 1
C12_Witness ==
    /\ Filtered
    /\ \E k \in 1..Len(df_out) :
          /\ df_out[k].r.original_maturity = 20
          /\ df_out[k].r.caldt = Date(1995, 7, 3)
          /\ RLt(df_out[k].weight, RInt(1))
    /\ \E k \in 1..Len(df_out) : df_out[k].weight = RInt(1)

\* C13: fit returns a (parameters, objective) pair only when the optimizer
\* reports success; whenever it reports failure, fit raises and returns none.
C13_NoUnconvergedFit ==
    gpc = "fitted" =>
        /\ fit_out.kind \in {"returned", "raised"}
        /\ fit_out.kind = "returned" <=> opt.success
        /\ ~opt.success => fit_out.kind = "raised" /\ fit_out.params = "none"
        /\ opt.success => fit_out.params = opt.x

\* the optimizer ran out of its budget and fit raised
C13_Witness ==
    gpc = "fitted" /\ opt.status = 1 /\ ~opt.success /\ fit_out.kind = "raised"

-----------------------------------------------------------------------------
(* curve_conversions.py *)
(*                                                                         *)
(* Numbers.  A time is a rational, or NaN.  A discount factor is NaN, zero, *)
(* negative, or the positive number exp(c * r) for a rational c and one     *)
(* fixed generic rate r > 0, so that its logarithm c * r is exact; a flat   *)
(* curve of rate r has c = -T.  A rate is kept in units of r:               *)
(*   "lin"       k * r                                                      *)
(*   "expm1"     exp(k * r) - 1                                             *)
(*   "lnmix"     (k * r - ln(mix)) / dt, mix a strict linear interpolation  *)
(*               between two different discount factors (aux says which)    *)
(*   "nonfinite" the inf or nan of a division by zero                       *)
(***************************************************************************)

\* the largest number of rows of a curve frame
MaxCurve == 3

NaNv == [n |-> 0, d |-> 0]

IsNaN(x) == x.d = 0

\* the discount factor exp(c * r)
ExpD(c) == [sign |-> "pos", c |-> c]

\* the discount factors that are not positive numbers
BadD(kind) == [sign |-> kind, c |-> RInt(0)]

t_col == "T"
d_col == "discount"

\* rows that pass the checks of _as_arrays: at each time the discount factor
\* of the flat curve of rate r, or exp(-2 r)
ValidCurveRows ==
    { x \in [T : {RInt(0), RInt(1), RInt(3)},
             D : {ExpD(RInt(c)) : c \in -3..0}] :
        x.D.c = RNeg(x.T) \/ x.D.c = RInt(-2) }

\* rows that fail them: NaN, a negative time, a discount factor <= 0
InvalidCurveRows ==
    { [T |-> NaNv, D |-> ExpD(RInt(0))],
      [T |-> RInt(1), D |-> BadD("nan")],
      [T |-> RInt(-1), D |-> ExpD(RInt(0))],
      [T |-> RInt(1), D |-> BadD("zero")],
      [T |-> RInt(1), D |-> BadD("neg")] }

CurveRows == ValidCurveRows \cup InvalidCurveRows

\* a frame of rows in input order; "id" stands for the columns other than
\* the time and the discount column, x holds the columns added by converters
FrameOf(f, n, cols) ==
    [cols |-> cols,
     rows |-> [i \in 1..n |-> [id |-> i, T |-> f[i].T, D |-> f[i].D,
                               x |-> <<>>]]]

AllCols == {t_col, d_col, "id"}

\* the column sets of a frame that lacks the time or the discount column
LackingCols == {{d_col, "id"}, {t_col, "id"}}

Dts == {RInt(-1), RInt(0), Rat(1, 2), RInt(1)}

\* the row x put into the sorted rows, after every row with a time <= its own
RECURSIVE InsertByT(_, _)
InsertByT(sorted, x) ==
    IF sorted = <<>> THEN <<x>>
    ELSE IF RLt(x.T, sorted[Len(sorted)].T)
         THEN InsertByT(SubSeq(sorted, 1, Len(sorted) - 1), x)
                  \o <<sorted[Len(sorted)]>>
         ELSE sorted \o <<x>>

\* rows in ascending order of time, ties in input order:
\* T[np.argsort(T)], and curve.sort_values(t_col)
RECURSIVE SortByT(_)
SortByT(rows) ==
    IF rows = <<>> THEN <<>>
    ELSE InsertByT(SortByT(SubSeq(rows, 1, Len(rows) - 1)), rows[Len(rows)])

ConvError(e) == [error |-> e, out |-> NoCurve]

ConvOk(frame) == [error |-> "none", out |-> frame]

\* the checks of _as_arrays, passing a discount factor of zero
as_arrays_check_ZeroPasses(c) ==
    IF t_col \notin c.cols \/ d_col \notin c.cols THEN "KeyError"
    ELSE IF \E i \in 1..Len(c.rows) :
                IsNaN(c.rows[i].T) \/ c.rows[i].D.sign = "nan"
    THEN "ValueError"
    ELSE IF \E i \in 1..Len(c.rows) :
                RLt(c.rows[i].T, RInt(0)) \/ c.rows[i].D.sign = "neg"
    THEN "ValueError"
    ELSE "none"

\* the checks of _as_arrays: the error raised, or "none"
as_arrays_check(c) ==
    IF t_col \notin c.cols \/ d_col \notin c.cols THEN "KeyError"
    ELSE IF \E i \in 1..Len(c.rows) :
                IsNaN(c.rows[i].T) \/ c.rows[i].D.sign = "nan"
    THEN "ValueError"
    ELSE IF \E i \in 1..Len(c.rows) :
                \/ RLt(c.rows[i].T, RInt(0))
                \/ c.rows[i].D.sign \in {"zero", "neg"}
    THEN "ValueError"
    ELSE "none"

\* out = curve.copy().sort_values(t_col).reset_index(drop=True);
\* out[out_col] = r
WithColumn(c, out_col, r) ==
    LET sorted == SortByT(c.rows)
    IN  [cols |-> c.cols \cup {out_col},
         rows |-> [i \in 1..Len(sorted) |->
                     [sorted[i] EXCEPT !.x =
                         [n \in (DOMAIN sorted[i].x) \cup {out_col} |->
                             IF n = out_col THEN r[i] ELSE sorted[i].x[n]]]]]

Lin(k) == [kind |-> "lin", k |-> k, aux |-> <<>>]

NonFinite == [kind |-> "nonfinite", k |-> RInt(0), aux |-> <<>>]

\* -np.log(D) / T
SpotCC(D, T) == Lin(RDiv(RNeg(D.c), T))

\* D ** (-1.0 / T) - 1.0
SpotSimple(D, T) ==
    [kind |-> "expm1", k |-> RMul(D.c, RDiv(RInt(-1), T)), aux |-> <<>>]

\* the last row of positive time
FirstPositive_Last(pos) == CHOOSE i \in pos : \A k \in pos : i >= k

\* r[pos][0]: the first row of positive time
FirstPositive(pos) == CHOOSE i \in pos : \A k \in pos : i <= k

\* r[pos] = rate; r[~pos] = r[pos][0] if any(pos) else 0.0
FillZeros(a, compounding) ==
    LET pos == { i \in 1..Len(a) : RLt(RInt(0), a[i].T) }
        Rate(D, T) == IF compounding = "cc" THEN SpotCC(D, T)
                      ELSE SpotSimple(D, T)
    IN  [i \in 1..Len(a) |->
            IF i \in pos THEN Rate(a[i].D, a[i].T)
            ELSE IF pos # {}
            THEN Rate(a[FirstPositive(pos)].D, a[FirstPositive(pos)].T)
            ELSE Lin(RInt(0))]

spot_rates_from_discount_cc(c, out_col) ==
    IF as_arrays_check(c) # "none" THEN ConvError(as_arrays_check(c))
    ELSE ConvOk(WithColumn(c, out_col, FillZeros(SortByT(c.rows), "cc")))

spot_rate_from_discount_simple(c, out_col) ==
    IF as_arrays_check(c) # "none" THEN ConvError(as_arrays_check(c))
    ELSE ConvOk(WithColumn(c, out_col, FillZeros(SortByT(c.rows), "simple")))

\* p * f1 + q * f2 + s * f3 with p, q, s quotients num / den
Comb3(n1, d1, f1, n2, d2, f2, n3, d3, f3) ==
    IF d1.n = 0 \/ d2.n = 0 \/ d3.n = 0 THEN NonFinite
    ELSE Lin(RNeg(RAdd(RAdd(RMul(RDiv(n1, d1), f1), RMul(RDiv(n2, d2), f2)),
                       RMul(RDiv(n3, d3), f3))))

\* -np.gradient(lnD, T, edge_order)[i], with lnD = c * r
ForwardInstantAt(a, i, edge_order) ==
    LET n == Len(a)
        T(k) == a[k].T
        f(k) == a[k].D.c
    IN  IF i > 1 /\ i < n
        THEN LET hs == RSub(T(i), T(i - 1))
                 hd == RSub(T(i + 1), T(i))
             IN  Comb3(RNeg(hd), RMul(hs, RAdd(hd, hs)), f(i - 1),
                       RSub(hd, hs), RMul(hd, hs), f(i),
                       hs, RMul(hd, RAdd(hd, hs)), f(i + 1))
        ELSE IF edge_order = 1
        THEN LET lo == IF i = 1 THEN 1 ELSE n - 1
                 h == RSub(T(lo + 1), T(lo))
             IN  IF h.n = 0 THEN NonFinite
                 ELSE Lin(RNeg(RDiv(RSub(f(lo + 1), f(lo)), h)))
        ELSE IF i = 1
        THEN LET dx1 == RSub(T(2), T(1))
                 dx2 == RSub(T(3), T(2))
             IN  Comb3(RNeg(RAdd(RMul(RInt(2), dx1), dx2)),
                       RMul(dx1, RAdd(dx1, dx2)), f(1),
                       RAdd(dx1, dx2), RMul(dx1, dx2), f(2),
                       RNeg(dx1), RMul(dx2, RAdd(dx1, dx2)), f(3))
        ELSE LET dx1 == RSub(T(n - 1), T(n - 2))
                 dx2 == RSub(T(n), T(n - 1))
             IN  Comb3(dx2, RMul(dx1, RAdd(dx1, dx2)), f(n - 2),
                       RNeg(RAdd(dx2, dx1)), RMul(dx1, dx2), f(n - 1),
                       RAdd(RMul(RInt(2), dx2), dx1),
                       RMul(dx2, RAdd(dx1, dx2)), f(n))

forward_rate_instant_cc(c, out_col) ==
    IF as_arrays_check(c) # "none" THEN ConvError(as_arrays_check(c))
    ELSE LET a == SortByT(c.rows)
             edge_order == IF Len(a) >= 3 THEN 2 ELSE 1
         IN  IF Len(a) < edge_order + 1 THEN ConvError("np.gradient error")
             ELSE ConvOk(WithColumn(c, out_col,
                     [i \in 1..Len(a) |-> ForwardInstantAt(a, i, edge_order)]))

\* (np.log(D) - np.log(np.interp(T + dt, T, D))) / dt at row i
ForwardDiscreteAt(a, i, step) ==
    LET n == Len(a)
        x == RAdd(a[i].T, step)
        own == a[i].D.c
    IN  IF step.n = 0 THEN NonFinite
        ELSE IF RLe(a[n].T, x) THEN Lin(RDiv(RSub(own, a[n].D.c), step))
        ELSE IF RLt(x, a[1].T) THEN Lin(RDiv(RSub(own, a[1].D.c), step))
        ELSE LET k == CHOOSE k \in 1..(n - 1) :
                        RLe(a[k].T, x) /\ RLt(x, a[k + 1].T)
             IN  IF x = a[k].T \/ a[k].D.c = a[k + 1].D.c
                 THEN Lin(RDiv(RSub(own, a[k].D.c), step))
                 ELSE [kind |-> "lnmix", k |-> own,
                       aux |-> <<a[k].D.c, a[k + 1].D.c,
                                 RDiv(RSub(x, a[k].T),
                                      RSub(a[k + 1].T, a[k].T)), step>>]

\* the guard of forward_rate_discrete_cc, passing dt = 0
dt_rejected_ZeroPasses(step) == step.n < 0

\* if dt <= 0: raise ValueError
dt_rejected(step) == step.n <= 0

forward_rate_discrete_cc(c, step, out_col) ==
    IF dt_rejected(step) THEN ConvError("ValueError")
    ELSE IF as_arrays_check(c) # "none" THEN ConvError(as_arrays_check(c))
    ELSE LET a == SortByT(c.rows)
         IN  IF Len(a) = 0 THEN ConvError("np.interp error")
             ELSE ConvOk(WithColumn(c, out_col,
                     [i \in 1..Len(a) |-> ForwardDiscreteAt(a, i, step)]))

\* f"{dt:g}" for the steps used: integers and positive halves
Format_g(step) ==
    IF step.d = 1 THEN ToString(step.n)
    ELSE ToString(step.n \div step.d) \o ".5"

\* f"forward_{dt:g}y_cc"
ForwardName(step) == "forward_" \o Format_g(step) \o "y_cc"

add_spot_and_forwards(c, step) ==
    LET s1 == spot_rates_from_discount_cc(c, "spot_cc")
        s2 == spot_rate_from_discount_simple(s1.out, "spot_simple")
        s3 == forward_rate_instant_cc(s2.out, "forward_instant_cc")
        s4 == forward_rate_discrete_cc(s3.out, step, ForwardName(step))
    IN  IF s1.error # "none" THEN s1
        ELSE IF s2.error # "none" THEN s2
        ELSE IF s3.error # "none" THEN s3
        ELSE s4

CurveInit ==
    /\ cpc = "start"
    /\ \/ \E n \in 0..MaxCurve : \E f \in [1..n -> CurveRows] :
              curve = FrameOf(f, n, AllCols)
       \/ \E f \in [1..1 -> ValidCurveRows] : \E cols \in LackingCols :
              curve = FrameOf(f, 1, cols)
    /\ dt \in Dts
    /\ conv = NoConv

\* what a call leaves behind
Called(op, res) ==
    /\ cpc = "start"
    /\ conv' = [op |-> op, error |-> res.error, out |-> res.out]
    /\ cpc' = "done"
    /\ curve' = CallerAfter(curve, res.out)
    /\ UNCHANGED dt
    /\ CurveFrame

CallSpotCC ==
    Called("spot_rates_from_discount_cc",
           spot_rates_from_discount_cc(curve, "spot_cc"))

CallSpotSimple ==
    Called("spot_rate_from_discount_simple",
           spot_rate_from_discount_simple(curve, "spot_simple"))

CallForwardInstant ==
    Called("forward_rate_instant_cc",
           forward_rate_instant_cc(curve, "forward_instant_cc"))

CallForwardDiscrete ==
    Called("forward_rate_discrete_cc",
           forward_rate_discrete_cc(curve, dt, ForwardName(dt)))

CallAddSpotAndForwards ==
    Called("add_spot_and_forwards", add_spot_and_forwards(curve, dt))

CurveNext ==
    \/ CallSpotCC
    \/ CallSpotSimple
    \/ CallForwardInstant
    \/ CallForwardDiscrete
    \/ CallAddSpotAndForwards

\* one call of a curve converter
InitCurve ==
    CurveInit /\ CashIdle /\ SplineIdle /\ GswIdle /\ MetricIdle /\ BatchIdle

NextCurve == CurveNext

SpecCurve == InitCurve /\ [][NextCurve]_vars

-----------------------------------------------------------------------------
(* Properties of the curve converters *)

Converted == cpc = "done"

\* the curve has both columns, no NaN, times >= 0 and discounts > 0
ValidCurve ==
    /\ t_col \in curve.cols /\ d_col \in curve.cols
    /\ \A i \in 1..Len(curve.rows) :
          /\ ~IsNaN(curve.rows[i].T)
          /\ curve.rows[i].D.sign = "pos"
          /\ RLe(RInt(0), curve.rows[i].T)

Failed == conv.error # "none" /\ conv.out = NoCurve

\* the column a call adds
OutCol ==
    CASE conv.op = "spot_rates_from_discount_cc" -> "spot_cc"
      [] conv.op = "spot_rate_from_discount_simple" -> "spot_simple"
      [] conv.op = "forward_rate_instant_cc" -> "forward_instant_cc"
      [] OTHER -> ForwardName(dt)

\* C14: every converter, and add_spot_and_forwards, fails and returns no
\* table when the curve lacks a column, holds a NaN, a time < 0 or a
\* discount <= 0.
C14_InvalidCurveFails ==
    (Converted /\ ~ValidCurve) => Failed

\* add_spot_and_forwards refused a curve with a zero discount factor
C14_Witness ==
    /\ Converted /\ conv.op = "add_spot_and_forwards" /\ dt = RInt(1)
    /\ Len(curve.rows) = 2
    /\ \E i \in 1..2 : curve.rows[i].D.sign = "zero"
    /\ \A i \in 1..2 : curve.rows[i].D.sign \in {"zero", "pos"}
                       /\ ~IsNaN(curve.rows[i].T)
    /\ conv.error = "ValueError"

\* the rows of the result are the rows of the curve, each once, with their
\* time, discount and other columns
SameRows ==
    /\ Len(conv.out.rows) = Len(curve.rows)
    /\ \A i \in 1..Len(curve.rows) :
          \E k \in 1..Len(conv.out.rows) :
              /\ conv.out.rows[k].id = i
              /\ conv.out.rows[k].T = curve.rows[i].T
              /\ conv.out.rows[k].D = curve.rows[i].D

SortedByTime ==
    \A k \in 1..(Len(conv.out.rows) - 1) :
        RLe(conv.out.rows[k].T, conv.out.rows[k + 1].T)

\* C15: for every valid curve of one row or more, in any order, each of the
\* four converters returns as many rows as it was given, sorted by time,
\* with every original column and the new column.
C15_SortedSameRowsNewColumn ==
    ( /\ Converted /\ ValidCurve /\ Len(curve.rows) >= 1
      /\ conv.op # "add_spot_and_forwards"
      /\ (conv.op = "forward_rate_discrete_cc" => dt.n > 0) )
    =>  /\ conv.error = "none"
        /\ SameRows
        /\ SortedByTime
        /\ conv.out.cols = curve.cols \cup {OutCol}
        /\ \A k \in 1..Len(conv.out.rows) :
              DOMAIN conv.out.rows[k].x = {OutCol}

\* the rows of positive time of the result
PositiveRows == { k \in 1..Len(conv.out.rows) : RLt(RInt(0), conv.out.rows[k].T) }

\* the first row of the result whose time is the smallest positive time
SmallestPositive ==
    CHOOSE k \in PositiveRows :
        /\ \A m \in PositiveRows : RLe(conv.out.rows[k].T, conv.out.rows[m].T)
        /\ \A m \in PositiveRows :
              conv.out.rows[m].T = conv.out.rows[k].T => k <= m

\* -ln(D)/T, respectively D^(-1/T) - 1, for the call made
RateOf(D, T) ==
    IF conv.op = "spot_rates_from_discount_cc" THEN SpotCC(D, T)
    ELSE SpotSimple(D, T)

\* C16: in the two spot converters a row with T > 0 gets the rate of its own
\* D and T; a row with T = 0 gets the rate of the smallest positive T of the
\* curve, or 0 when the curve has no positive T.
C16_ZeroTimeFill ==
    ( /\ Converted /\ conv.error = "none"
      /\ conv.op \in {"spot_rates_from_discount_cc",
                      "spot_rate_from_discount_simple"} )
    =>  \A k \in 1..Len(conv.out.rows) :
            LET o == conv.out.rows[k]
                own == curve.rows[o.id]
            IN  IF RLt(RInt(0), own.T)
                THEN o.x[OutCol] = RateOf(own.D, own.T)
                ELSE IF PositiveRows # {}
                THEN o.x[OutCol] =
                        RateOf(conv.out.rows[SmallestPositive].D,
                               conv.out.rows[SmallestPositive].T)
                ELSE o.x[OutCol] = Lin(RInt(0))

\* a curve given as T = 3, 0, 1 came back with the T = 0 row carrying the
\* rate of the T = 1 row, which differs from the rate of the T = 3 row
C16_Witness ==
    /\ Converted /\ conv.op = "spot_rates_from_discount_cc"
    /\ conv.error = "none"
    /\ Len(curve.rows) = 3
    /\ curve.rows[1].T = RInt(3) /\ curve.rows[2].T = RInt(0)
    /\ curve.rows[3].T = RInt(1)
    /\ conv.out.rows[1].id = 2
    /\ conv.out.rows[1].x["spot_cc"] = conv.out.rows[2].x["spot_cc"]
    /\ conv.out.rows[1].x["spot_cc"] # conv.out.rows[3].x["spot_cc"]

\* the curve is D(T) = exp(-r T) on a grid of two or more distinct times
FlatCurve ==
    /\ ValidCurve
    /\ Len(curve.rows) >= 2
    /\ \A i \in 1..Len(curve.rows) : curve.rows[i].D.c = RNeg(curve.rows[i].T)
    /\ \A i, k \in 1..Len(curve.rows) :
          i # k => curve.rows[i].T # curve.rows[k].T

\* C17: on a flat curve of rate r the instantaneous forward and the discrete
\* forward (any dt > 0) equal r at every row, the last rows included.
C17_FlatCurveForwards ==
    ( /\ Converted /\ FlatCurve
      /\ \/ conv.op = "forward_rate_instant_cc"
         \/ conv.op = "forward_rate_discrete_cc" /\ dt.n > 0 )
    =>  /\ conv.error = "none"
        /\ \A k \in 1..Len(conv.out.rows) :
              conv.out.rows[k].x[OutCol] = Lin(RInt(1))

\* C18: forward_rate_discrete_cc and add_spot_and_forwards fail and return no
\* table whenever dt <= 0.
C18_NonPositiveDtFails ==
    ( /\ Converted /\ dt.n <= 0
      /\ conv.op \in {"forward_rate_discrete_cc", "add_spot_and_forwards"} )
    => Failed

\* add_spot_and_forwards refused dt = 0 on a valid curve of three rows
C18_Witness ==
    /\ Converted /\ conv.op = "add_spot_and_forwards" /\ dt = RInt(0)
    /\ ValidCurve /\ Len(curve.rows) = 3
    /\ conv.error = "ValueError" /\ conv.out = NoCurve

AddedCols == {"spot_cc", "spot_simple", "forward_instant_cc", ForwardName(dt)}

\* the single converter that produces column n, applied to the curve
Direct(n) ==
    CASE n = "spot_cc" -> spot_rates_from_discount_cc(curve, n)
      [] n = "spot_simple" -> spot_rate_from_discount_simple(curve, n)
      [] n = "forward_instant_cc" -> forward_rate_instant_cc(curve, n)
      [] OTHER -> forward_rate_discrete_cc(curve, dt, n)

\* C19: for a valid curve and dt > 0 add_spot_and_forwards returns the
\* original columns plus the four named columns, each equal row for row to
\* the column of the single converter applied to the original curve.
C19_WrapperMatchesConverters ==
    ( /\ Converted /\ conv.op = "add_spot_and_forwards"
      /\ ValidCurve /\ dt.n > 0 )
    =>  /\ conv.error = "none"
        /\ conv.out.cols = curve.cols \cup AddedCols
        /\ \A n \in AddedCols :
              /\ Direct(n).error = "none"
              /\ Len(Direct(n).out.rows) = Len(conv.out.rows)
              /\ \A k \in 1..Len(conv.out.rows) :
                    /\ DOMAIN conv.out.rows[k].x = AddedCols
                    /\ conv.out.rows[k].id = Direct(n).out.rows[k].id
                    /\ conv.out.rows[k].x[n] = Direct(n).out.rows[k].x[n]

\* the same statement for curves of two rows or more
WrapperMatchesFromTwoRows ==
    Len(curve.rows) >= 2 => C19_WrapperMatchesConverters

\* the statement of C15 for curves of two rows or more
SortedSameRowsFromTwoRows ==
    Len(curve.rows) >= 2 => C15_SortedSameRowsNewColumn

-----------------------------------------------------------------------------
(* error_metrics.py *)

\* the largest number of bonds scored in one call
MaxQuotes == 2

\* the scored bonds: model price, bid, ask and duration of each
QuoteRows ==
    [model : {RInt(99), RInt(100), RInt(101)},
     bid : {RInt(99), RInt(100)},
     ask : {RInt(98), RInt(100), RInt(102)},
     duration : {RInt(-1), RInt(0), RInt(1), RInt(2)}]

RAbs(a) == [n |-> Abs(a.n), d |-> a.d]

\* mid taken to be the bid
mid_BidOnly(x) == x.bid

\* mid = (bid + ask) * 0.5
mid(x) == RMul(RAdd(x.bid, x.ask), Rat(1, 2))

\* weights equal to the duration itself
weights_ByDuration(x) == x.duration

\* weights = 1.0 / duration
weights(x) == RDiv(RInt(1), x.duration)

\* weights * np.abs(model_price - mid)
WeightedError(x) == RMul(weights(x), RAbs(RSub(x.model, mid(x))))

\* np.sum(weights), from row i on
RECURSIVE SumWeights(_, _)
SumWeights(q, i) ==
    IF i > Len(q) THEN RInt(0)
    ELSE RAdd(weights(q[i]), SumWeights(q, i + 1))

\* np.sum(weights * np.abs(model_price - mid)), from row i on
RECURSIVE SumWeightedErrors(_, _)
SumWeightedErrors(q, i) ==
    IF i > Len(q) THEN RInt(0)
    ELSE RAdd(WeightedError(q[i]), SumWeightedErrors(q, i + 1))

Finite(v) == [op |-> "wmae", finite |-> TRUE, value |-> v]

NotFinite(op) == [op |-> op, finite |-> FALSE, value |-> RInt(0)]

\* np.sum(weights * np.abs(model_price - mid)) / np.sum(weights); a zero
\* duration, a zero sum of weights or no row at all gives inf or nan
wmae(q) ==
    IF \E i \in 1..Len(q) : q[i].duration.n = 0 THEN NotFinite("wmae")
    ELSE IF SumWeights(q, 1).n = 0 THEN NotFinite("wmae")
    ELSE Finite(RDiv(SumWeightedErrors(q, 1), SumWeights(q, 1)))

\* hits with the quotes themselves left out
hits_Strict(x) == RLt(x.bid, x.model) /\ RLt(x.model, x.ask)

\* hits = (model_price >= bid) & (model_price <= ask)
hits(x) == RLe(x.bid, x.model) /\ RLe(x.model, x.ask)

\* np.mean(hits); the mean of no rows is nan
hit_rate(q) ==
    IF Len(q) = 0 THEN NotFinite("hit_rate")
    ELSE [op |-> "hit_rate", finite |-> TRUE,
          value |-> Rat(Cardinality({ i \in 1..Len(q) : hits(q[i]) }), Len(q))]

MetricInit ==
    /\ mpc = "start"
    /\ \E n \in 0..MaxQuotes : quotes \in [1..n -> QuoteRows]
    /\ score = NoScore

CallWmae ==
    /\ mpc = "start"
    /\ score' = wmae(quotes)
    /\ mpc' = "done"
    /\ UNCHANGED quotes
    /\ MetricFrame

CallHitRate ==
    /\ mpc = "start"
    /\ score' = hit_rate(quotes)
    /\ mpc' = "done"
    /\ UNCHANGED quotes
    /\ MetricFrame

MetricNext ==
    \/ CallWmae
    \/ CallHitRate

\* one call of a score
InitMetric ==
    MetricInit /\ CashIdle /\ SplineIdle /\ GswIdle /\ CurveIdle /\ BatchIdle

NextMetric == MetricNext

SpecMetric == InitMetric /\ [][NextMetric]_vars

-----------------------------------------------------------------------------
(* Properties of the scores *)

\* |model - (bid + ask)/2| / duration of one bond
ErrorOverDuration(x) ==
    RDiv(RAbs(RSub(x.model, RDiv(RAdd(x.bid, x.ask), RInt(2)))), x.duration)

\* 1 / duration of one bond
InverseDuration(x) == RDiv(RInt(1), x.duration)

\* the sum over the bonds i.. of |model - mid| / duration
RECURSIVE SumErrorOverDuration(_)
SumErrorOverDuration(i) ==
    IF i > Len(quotes) THEN RInt(0)
    ELSE RAdd(ErrorOverDuration(quotes[i]), SumErrorOverDuration(i + 1))

\* the sum over the bonds i.. of 1 / duration
RECURSIVE SumInverseDuration(_)
SumInverseDuration(i) ==
    IF i > Len(quotes) THEN RInt(0)
    ELSE RAdd(InverseDuration(quotes[i]), SumInverseDuration(i + 1))

AllDurationsPositive == \A i \in 1..Len(quotes) : quotes[i].duration.n > 0

WithinQuotes(x) == ~RLt(x.model, x.bid) /\ ~RLt(x.ask, x.model)

\* the number of bonds i.. priced within their quotes
RECURSIVE CountWithinQuotes(_)
CountWithinQuotes(i) ==
    IF i > Len(quotes) THEN 0
    ELSE (IF WithinQuotes(quotes[i]) THEN 1 ELSE 0) + CountWithinQuotes(i + 1)

\* C21: for a non-empty input hit_rate is the fraction of the bonds with
\* bid <= model <= ask, a model price equal to the bid or to the ask counting
\* as a hit, and it lies in [0, 1].
C21_HitRateFraction ==
    (mpc = "done" /\ score.op = "hit_rate" /\ Len(quotes) >= 1)
    =>  /\ score.finite
        /\ score.value = Rat(CountWithinQuotes(1), Len(quotes))
        /\ RLe(RInt(0), score.value) /\ RLe(score.value, RInt(1))

\* one bond priced at its bid and one priced at its ask were both hits
C21_Witness ==
    /\ mpc = "done" /\ score.op = "hit_rate" /\ score.finite
    /\ Len(quotes) = 2
    /\ quotes[1].model = quotes[1].bid /\ RLt(quotes[1].bid, quotes[1].ask)
    /\ quotes[2].model = quotes[2].ask /\ RLt(quotes[2].bid, quotes[2].ask)
    /\ score.value = RInt(1)

\* every bond's model price is (bid + ask) / 2
PerfectFit ==
    \A i \in 1..Len(quotes) :
        quotes[i].model = RDiv(RAdd(quotes[i].bid, quotes[i].ask), RInt(2))

\* no bond is quoted with its bid above its ask
NoCrossedQuote ==
    \A i \in 1..Len(quotes) : RLe(quotes[i].bid, quotes[i].ask)

\* a perfect fit scores wmae 0 and hit rate 1
PerfectScore ==
    /\ score.finite
    /\ score.op = "wmae" => score.value = RInt(0)
    /\ score.op = "hit_rate" => score.value = RInt(1)

\* C22 as stated: for all bid, ask and duration > 0 arrays, a model price
\* equal to mid gives wmae 0 and hit rate 1.
C22_PerfectFitAnyQuotes ==
    (mpc = "done" /\ AllDurationsPositive /\ PerfectFit) => PerfectScore

\* C22: for non-empty arrays with duration > 0 and bid <= ask for every
\* bond, a model price equal to mid gives wmae 0 and hit rate 1.
C22_PerfectFit ==
    ( /\ mpc = "done" /\ AllDurationsPositive /\ PerfectFit
      /\ Len(quotes) >= 1 /\ NoCrossedQuote )
    => PerfectScore

\* two bonds of different spreads priced at their mids were scored a hit
\* rate of 1
C22_Witness ==
    /\ mpc = "done" /\ score.op = "hit_rate"
    /\ AllDurationsPositive /\ PerfectFit /\ NoCrossedQuote
    /\ Len(quotes) = 2
    /\ quotes[1].bid = quotes[1].ask
    /\ RLt(quotes[2].bid, quotes[2].ask)
    /\ score.finite /\ score.value = RInt(1)

-----------------------------------------------------------------------------
(* mcc1975_yield_curve.py: run_mcculloch and get_full_error_metrics *)

\* the largest number of rows one date has in the sample
MaxPerDate == 4

\* the largest number of bonds in a mapping the caller built
MaxScored == 2

\* the quote dates of the sample
SampleDates == {1, 2}

\* the two bonds a date quotes in turn: days to maturity, quotes, duration,
\* and `fitted`, the price the least-squares fit of its date gives the bond
\* (lines 197-203 read the bonds of the date and nothing else)
ShortBond ==
    [ttm_days |-> 365, bid |-> RInt(99), ask |-> RInt(100),
     mid_price |-> Rat(199, 2), duration |-> RInt(1), fitted |-> RInt(100)]

LongBond ==
    [ttm_days |-> 3650, bid |-> RInt(100), ask |-> RInt(102),
     mid_price |-> RInt(101), duration |-> RInt(2), fitted |-> RInt(99)]

BondKinds == {ShortBond, LongBond}

\* the n rows of one date: short and long bonds in turn, from `lead` on
DateRows(DATE, lead, n) ==
    [i \in 1..n |->
        LET k == IF i % 2 = 1 THEN lead
                 ELSE IF lead = ShortBond THEN LongBond ELSE ShortBond
        IN  [date |-> DATE, cusip |-> i, ttm_days |-> k.ttm_days,
             bid |-> k.bid, ask |-> k.ask, mid_price |-> k.mid_price,
             duration |-> k.duration, fitted |-> k.fitted]]

\* rows of a and of b in turn
RECURSIVE Interleave(_, _)
Interleave(a, b) ==
    IF a = <<>> THEN b
    ELSE <<Head(a)>> \o Interleave(b, Tail(a))

\* the orders in which the rows of two dates lie in the sample
Orders == {"first", "second", "alternate"}

Arrange(a, b, order) ==
    IF order = "first" THEN a \o b
    ELSE IF order = "second" THEN b \o a
    ELSE Interleave(a, b)

\* sample["date"].unique(): the dates in order of first appearance
unique(s) ==
    LET F[i \in 0..Len(s)] ==
            IF i = 0 THEN <<>>
            ELSE IF \E k \in 1..Len(F[i - 1]) : F[i - 1][k] = s[i].date
                 THEN F[i - 1]
                 ELSE Append(F[i - 1], s[i].date)
    IN  F[Len(s)]

\* sample.loc[sample["date"] == DATE].reset_index(drop=True)
RowsOfDate(s, DATE) == SelectSeq(s, LAMBDA x : x.date = DATE)

\* bonds["ttm"] = bonds["ttm_days"] / 365
WithTtm(rows) ==
    [i \in 1..Len(rows) |->
        [date |-> rows[i].date, cusip |-> rows[i].cusip,
         ttm_days |-> rows[i].ttm_days, bid |-> rows[i].bid,
         ask |-> rows[i].ask, mid_price |-> rows[i].mid_price,
         duration |-> rows[i].duration, fitted |-> rows[i].fitted,
         ttm |-> Rat(rows[i].ttm_days, DaysPerYear)]]

RECURSIVE InsertByTtm(_, _)
InsertByTtm(sorted, x) ==
    IF sorted = <<>> THEN <<x>>
    ELSE IF RLt(x.ttm, sorted[Len(sorted)].ttm)
         THEN InsertByTtm(SubSeq(sorted, 1, Len(sorted) - 1), x)
                  \o <<sorted[Len(sorted)]>>
         ELSE sorted \o <<x>>

\* bonds.sort_values(by="ttm", ascending=True)
RECURSIVE SortByTtm(_)
SortByTtm(rows) ==
    IF rows = <<>> THEN <<>>
    ELSE InsertByTtm(SortByTtm(SubSeq(rows, 1, Len(rows) - 1)),
                     rows[Len(rows)])

\* get_nodes(bonds, maturities) as one value
get_nodes(mat) ==
    LET n_bonds == Len(mat)
        n_knots == ISqrt(n_bonds)
        k == n_knots + 1
        interior == [i \in 1..(IF n_knots > 2 THEN n_knots - 2 ELSE 0) |->
                        InteriorKnot(mat, k, i + 1)]
    IN  [d |-> <<RInt(0)>> \o interior \o <<SeqMax(mat, n_bonds)>>,
         ncoef |-> k]

\* bonds["model_price"] = P_hat; bonds["residual"] = resid: the per-bond
\* table an entry of results holds
PricedRow(x) ==
    [date |-> x.date, cusip |-> x.cusip, ttm_days |-> x.ttm_days,
     bid |-> x.bid, ask |-> x.ask, mid_price |-> x.mid_price,
     duration |-> x.duration, ttm |-> x.ttm,
     model_price |-> x.fitted, residual |-> RSub(x.fitted, x.mid_price)]

\* the columns the scores read, as rows [model, bid, ask, duration]
AsQuotes(rows) ==
    [i \in 1..Len(rows) |->
        [model |-> rows[i].model_price, bid |-> rows[i].bid,
         ask |-> rows[i].ask, duration |-> rows[i].duration]]

\* the key under which run_mcculloch stores the per-bond table
StoredKey == "bonds"

\* the key under which get_full_error_metrics looks the table up
LookupKey == "bonds_df"

\* one entry of results: the per-bond table under its key, the knots, the
\* two scores
Entry(DATE, key, rows, nodes) ==
    [date |-> DATE, key |-> key, table |-> rows, nodes |-> nodes,
     wmae |-> wmae(AsQuotes(rows)), hit_rate |-> hit_rate(AsQuotes(rows))]

\* one pass of the loop of run_mcculloch, lines 187-221: the local frame
\* bonds, and the entry stored or the error raised by fit
LoopBody(s, DATE) ==
    LET bonds == SortByTtm(WithTtm(RowsOfDate(s, DATE)))
        maturities_ == [i \in 1..Len(bonds) |-> bonds[i].ttm]
        nodes == get_nodes(maturities_)
        v == ValidateKnots(nodes.d, nodes.ncoef)
        priced == [i \in 1..Len(bonds) |-> PricedRow(bonds[i])]
    IN  IF v # "ok"
        THEN [error |-> v, bonds |-> bonds]
        ELSE [error |-> "none", bonds |-> priced,
              entry |-> Entry(DATE, StoredKey, priced, nodes.d)]

\* the maturity bands; a stop of Inf is np.inf
Inf == [n |-> 1, d |-> 0]

ttm_bins ==
    << [start |-> RInt(0), stop |-> RInt(1), label |-> "0-1"],
       [start |-> RInt(1), stop |-> RInt(3), label |-> "1-3"],
       [start |-> RInt(3), stop |-> RInt(5), label |-> "3-5"],
       [start |-> RInt(5), stop |-> RInt(10), label |-> "5-10"],
       [start |-> RInt(10), stop |-> Inf, label |-> ">10"] >>

\* a band closed on the right and open on the left
InBin_RightClosed(x, bin) ==
    /\ RLt(bin.start, x.ttm)
    /\ bin.stop = Inf \/ RLe(x.ttm, bin.stop)

\* (preds["ttm"] >= start) & (preds["ttm"] < stop)
InBin(x, bin) ==
    /\ RLe(bin.start, x.ttm)
    /\ bin.stop = Inf \/ RLt(x.ttm, bin.stop)

\* pd.concat of the per-bond tables of the entries, in order
RECURSIVE Concat(_, _)
Concat(res, i) ==
    IF i > Len(res) THEN <<>> ELSE res[i].table \o Concat(res, i + 1)

\* one row of the score table
ScoreRow(label, rows) ==
    [label |-> label, wmae |-> wmae(AsQuotes(rows)),
     hit_rate |-> hit_rate(AsQuotes(rows))]

\* get_full_error_metrics(results)
get_full_error_metrics(res) ==
    IF \E i \in 1..Len(res) : res[i].key # LookupKey
    THEN [kind |-> "raised", error |-> "KeyError: 'bonds_df'", rows |-> <<>>]
    ELSE IF res = <<>>
    THEN [kind |-> "raised", error |-> "ValueError: No objects to concatenate",
          rows |-> <<>>]
    ELSE LET preds == Concat(res, 1)
         IN  [kind |-> "table", error |-> "none",
              rows |-> [b \in 1..Len(ttm_bins) |->
                           ScoreRow(ttm_bins[b].label,
                                    SelectSeq(preds,
                                        LAMBDA x : InBin(x, ttm_bins[b])))]
                       \o <<ScoreRow("All", preds)>>]

\* the times to maturity of the bonds of a mapping the caller built
ScoredTtm == {Rat(-1, 2), RInt(0), RInt(1), RInt(3), RInt(5), RInt(10)}

\* the per-bond rows of a mapping the caller built: short bonds quoted on
\* date 1, long bonds on date 2
ScoredRows ==
    { [date |-> IF k = ShortBond THEN 1 ELSE 2, cusip |-> 1, ttm_days |-> 0,
       bid |-> k.bid, ask |-> k.ask, mid_price |-> k.mid_price,
       duration |-> k.duration, ttm |-> t, model_price |-> k.fitted,
       residual |-> RSub(k.fitted, k.mid_price)] :
      k \in BondKinds, t \in ScoredTtm }

\* a mapping the caller built: one entry per date of the rows, holding the
\* rows of the date under LookupKey
Mapping(rows) ==
    LET ds == unique(rows)
    IN  [i \in 1..Len(ds) |->
            Entry(ds[i], LookupKey, RowsOfDate(rows, ds[i]), <<>>)]

\* the caller holds a sample for run_mcculloch
SampleInit ==
    /\ bpc = "start"
    /\ \E n1 \in 0..MaxPerDate : \E n2 \in 0..MaxPerDate :
         \E k1 \in BondKinds : \E k2 \in BondKinds : \E order \in Orders :
              sample = Arrange(DateRows(1, k1, n1), DateRows(2, k2, n2), order)
    /\ todo = <<>>
    /\ results = <<>>
    /\ report = NoReport
    /\ berr = "none"

\* the caller holds a mapping of per-bond tables of its own
MappingInit ==
    /\ bpc = "mapping"
    /\ sample = <<>>
    /\ todo = <<>>
    /\ \E n \in 0..MaxScored : \E f \in [1..n -> ScoredRows] :
          results = Mapping(f)
    /\ report = NoReport
    /\ berr = "none"

BatchInit == SampleInit \/ MappingInit

\* run_mcculloch(sample), lines 179-181
RunMcculloch ==
    /\ BatchFrame
    /\ bpc = "start"
    /\ todo' = unique(sample)
    /\ results' = <<>>
    /\ bpc' = "loop"
    /\ UNCHANGED <<sample, report, berr>>

\* one pass of `for idx, DATE in enumerate(dates)`; an error raised in the
\* pass leaves run_mcculloch, nothing catches it
Iterate ==
    /\ BatchFrame
    /\ bpc = "loop"
    /\ todo # <<>>
    /\ LET body == LoopBody(sample, Head(todo))
       IN  /\ sample' = CallerAfter(sample, body.bonds)
           /\ IF body.error = "none"
              THEN /\ results' = Append(results, body.entry)
                   /\ todo' = Tail(todo)
                   /\ UNCHANGED <<bpc, berr>>
              ELSE /\ berr' = body.error
                   /\ bpc' = "run_raised"
                   /\ UNCHANGED <<results, todo>>
    /\ UNCHANGED report

\* return results
RunReturn ==
    /\ BatchFrame
    /\ bpc = "loop"
    /\ todo = <<>>
    /\ bpc' = "returned"
    /\ UNCHANGED <<sample, todo, results, report, berr>>

\* get_full_error_metrics(results), on what run_mcculloch returned or on
\* the caller's own mapping
GetFullErrorMetrics ==
    /\ BatchFrame
    /\ bpc \in {"returned", "mapping"}
    /\ report' = get_full_error_metrics(results)
    /\ bpc' = IF bpc = "returned" THEN "scored" ELSE "mapping_scored"
    /\ UNCHANGED <<sample, todo, results, berr>>

BatchNext ==
    \/ RunMcculloch
    \/ Iterate
    \/ RunReturn
    \/ GetFullErrorMetrics

\* run_mcculloch on a sample, then get_full_error_metrics; or
\* get_full_error_metrics on a mapping of the caller
InitBatch ==
    BatchInit /\ CashIdle /\ SplineIdle /\ GswIdle /\ CurveIdle /\ MetricIdle

NextBatch == BatchNext

SpecBatch == InitBatch /\ [][NextBatch]_vars

\* the converters, the filters, run_mcculloch and get_full_error_metrics,
\* each called on its own
InitCallers == InitCurve \/ InitGsw \/ InitBatch

NextCallers == CurveNext \/ GswNext \/ BatchNext

SpecCallers == InitCallers /\ [][NextCallers]_vars

-----------------------------------------------------------------------------
(* Properties of run_mcculloch and get_full_error_metrics *)

\* the bonds of all the entries of the mapping
Preds == Concat(results, 1)

\* the lower edges of the five bands
BandEdges == <<0, 1, 3, 5, 10>>

\* ttm lies in band b: at or above its lower edge, below the next edge
InBand(x, b) ==
    /\ ~RLt(x.ttm, RInt(BandEdges[b]))
    /\ b < Len(BandEdges) => RLt(x.ttm, RInt(BandEdges[b + 1]))

BondsOfBand(b) == SelectSeq(Preds, LAMBDA x : InBand(x, b))

\* a row of the score table holds the two scores of the given bonds
ScoresOf(r, bonds) ==
    /\ r.wmae = wmae(AsQuotes(bonds))
    /\ r.hit_rate = hit_rate(AsQuotes(bonds))

\* C23: the table get_full_error_metrics returns has one row for each of
\* the bands [0,1), [1,3), [3,5), [5,10), [10,inf) and a row "All"; a bond
\* with ttm >= 0 lies in exactly one band, and each row holds wmae and
\* hit_rate of exactly the bonds of its band, "All" of all the bonds.
C23_BandsAndAll ==
    report.kind = "table" =>
        /\ Len(report.rows) = Len(BandEdges) + 1
        /\ \A b \in 1..Len(BandEdges) : ScoresOf(report.rows[b], BondsOfBand(b))
        /\ report.rows[Len(BandEdges) + 1].label = "All"
        /\ ScoresOf(report.rows[Len(BandEdges) + 1], Preds)
        /\ \A i \in 1..Len(Preds) :
              ~RLt(Preds[i].ttm, RInt(0)) =>
                  Cardinality({ b \in 1..Len(BandEdges) :
                                   InBand(Preds[i], b) }) = 1

\* a bond at the edge ttm = 1 was scored in [1,3) and not in [0,1), and a
\* bond of negative ttm in "All" alone
C23_Witness ==
    /\ report.kind = "table"
    /\ Len(Preds) = 2
    /\ Preds[1].ttm = RInt(1) /\ RLt(Preds[2].ttm, RInt(0))
    /\ ~report.rows[1].hit_rate.finite
    /\ report.rows[2].hit_rate.finite
    /\ report.rows[2].hit_rate.value # report.rows[6].hit_rate.value

\* run_mcculloch has ended, by a return or by an error
RunEnded == bpc \in {"returned", "run_raised"}

\* the dates of the sample
DatesOf(s) == { s[i].date : i \in 1..Len(s) }

\* the fit of the rows of DATE succeeds
FitsAlone(DATE) == LoopBody(sample, DATE).error = "none"

\* the entries of what run_mcculloch returned for DATE; nothing is returned
\* when it raised
ReturnedFor(DATE) ==
    IF bpc = "run_raised" THEN <<>>
    ELSE SelectSeq(results, LAMBDA e : e.date = DATE)

\* C24: when the fit of one date fails, the results of the other dates,
\* earlier and later in the iteration, are still returned.
C24_FailuresIsolated ==
    RunEnded =>
        \A DATE \in DatesOf(sample) :
            FitsAlone(DATE) => Len(ReturnedFor(DATE)) >= 1

\* the entry run_mcculloch gives DATE on the sample made of the rows of
\* DATE alone
EntryAlone(DATE) == LoopBody(RowsOfDate(sample, DATE), DATE).entry

\* C25: run_mcculloch returns one entry per date, and the entry of a date
\* is the one the rows of that date alone give, whatever the other dates
\* of the sample hold and wherever they lie.
C25_EntryOfOwnRowsOnly ==
    RunEnded =>
        \A DATE \in DatesOf(sample) :
            FitsAlone(DATE) => ReturnedFor(DATE) = <<EntryAlone(DATE)>>

\* the statement of C25 for the runs in which no date fails
EntryOfOwnRowsWhenReturned ==
    bpc = "returned" =>
        /\ Len(results) = Cardinality(DatesOf(sample))
        /\ \A DATE \in DatesOf(sample) :
              ReturnedFor(DATE) = <<EntryAlone(DATE)>>

C30_ScoresWhatRunReturns ==
    (bpc = "scored" /\ results # <<>>) => report.kind = "table"

-----------------------------------------------------------------------------
(* Properties of fit and predict_prices *)

\* the model prices have been computed
Priced == spc \in {"priced", "curve"}

\* the residual run_mcculloch stores: P_hat - prices
Residual(i) == RSub(P_hat[i], fit_in[i].price)

\* the residual of the regression: X_i * beta - rhs_i
RegressionResidual(i) ==
    RSub(Dot(DesignRow(fit_in[i], knots, ncoef), beta_hat, ncoef),
         RhsOf(fit_in[i]))

\* C27: for any beta, cash flows, clean prices and accrued interest the
\* residual predict_prices(beta)_i - price_i is X_i * beta - rhs_i, X_i and
\* rhs_i being the design row and the right-hand side fit builds.
C27_ResidualIsRegressionResidual ==
    Priced => \A i \in 1..Len(fit_in) : Residual(i) = RegressionResidual(i)

\* coupon bonds with accrued interest were priced by a non-zero beta, and
\* some bond was priced off its quote
C27_Witness ==
    /\ Priced
    /\ Len(fit_in) >= 4
    /\ fit_in[1].ai # RInt(0)
    /\ Len(fit_in[Len(fit_in)].cf) = 2
    /\ \A i \in 1..ncoef : beta_hat[i] # RInt(0)
    /\ \E i \in 1..Len(fit_in) : Residual(i) # RInt(0)

-----------------------------------------------------------------------------
(* get_cashflows_from_bonds: the end of the schedule, and termination *)

\* the date of the last payment of the schedule just built: the last of
\* payment_dates, or maturity when there is none
LastPaymentDate ==
    IF payment_dates = <<>> THEN row.maturity_date
    ELSE payment_dates[Len(payment_dates)]

\* C28: for a coupon bond with maturity after settle the last payment of
\* the schedule, which carries the face value, is dated at maturity and no
\* payment is dated after maturity, the first coupon being supplied or
\* inferred.
C28_LastPaymentAtMaturity ==
    (BuiltCoupon /\ DateLt(row.date, row.maturity_date)) =>
        /\ LastPaymentDate = row.maturity_date
        /\ \A i \in 1..Len(payment_dates) :
               DateLe(payment_dates[i], row.maturity_date)

\* the backward walk is about to take a pass
WalkingBack == pc = "infer" /\ DateLt(row.date, d)

\* the forward loop is about to take a pass
WalkingForward == pc = "forward" /\ PeriodM(d) <= PeriodM(row.maturity_date)

\* C29: for every positive integer freq each pass of the backward walk
\* moves d strictly earlier and each pass of the forward loop moves d
\* strictly later, so that both loops end.
C29_LoopsAdvance ==
    freq > 0 =>
        /\ WalkingBack => DateLt(StepBack(d, months, month_end), d)
        /\ WalkingForward => DateLt(d, StepForward(d, months, month_end))

\* the statement of C29 for the frequencies of at most twelve a year
LoopsAdvanceUpToMonthly == (freq > 0 /\ freq <= 12) => C29_LoopsAdvance

====
